---------------------------- MODULE Spec2Model ----------------------------
(* Venstar ColorTouch nodeserver (venstar-poly.py over venstarapi.py):     *)
(* one thermostat node, the device behind its REST API, and the command    *)
(* handlers and the short poll that run against it.  Each handler runs to  *)
(* completion before the next starts (one thread), so a handler is one     *)
(* step.  Numbers stand for the values the strings and floats of the       *)
(* payloads denote (float(68) = 68, int("3") = 3).                         *)
EXTENDS Integers, Sequences, FiniteSets, TLC

(* ------------------------------ bounds -------------------------------- *)
\* how many hostnames are configured, or thermostats answer the SSDP search
MaxCandidates == 3
\* the highest heat/cool state the thermostat reports (0 idle, 1 heating,
\* 2 cooling, then lockout, error, ...)
MaxRawState == 4
\* lowest setpoint of the modelled range, and how many degrees it spans
LowTemp == 68
NumTemps == 3
\* the minimum heat/cool separation the device reports (setpointdelta)
SetpointDelta == 1
\* how many changes are made at the thermostat itself between two polls
MaxDrift == 1

Temps == LowTemp .. (LowTemp + NumTemps - 1)

(* ------------------------ program constants --------------------------- *)
THERMO_MODE_OFF == 0
THERMO_MODE_HEAT == 1
THERMO_MODE_COOL == 2
THERMO_MODE_AUTO == 3
IX_TSTAT_MODE_AWAY == 13
IX_TSTAT_SCHED_MODE_ACTIVE == 0
IX_TSTAT_SCHED_MODE_INACTIVE == 255
ISY_TEMP_F_UOM == 17
ISY_TEMP_C_UOM == 4

DeviceModes == {THERMO_MODE_OFF, THERMO_MODE_HEAT, THERMO_MODE_COOL, THERMO_MODE_AUTO}
\* the values the ISY can send with SET_CLIMD (UOM 67 subset of the nodedef)
CommandModes == DeviceModes \cup {IX_TSTAT_MODE_AWAY}
FanModes == {0, 1}

(* How an HTTP exchange can end.  "fail" is a timeout, a connection error  *)
(* or a status raise_for_status() raises on; "200error" is a 200 whose     *)
(* body has an "error" field.                                              *)
GetOutcomes == {"200ok", "201", "401", "fail"}
PostOutcomes == {"200ok", "200error", "201", "401", "fail"}

VARIABLES
    dev,      \* the thermostat itself: what GET /query/info would return now
    tstat,    \* the Thermostat node: tempUnit, id, uom of its temperature drivers
    drv,      \* the node's driver values (the cached state the ISY sees)
    command,  \* the handler that ran last and the command it was given
    calls,    \* the HTTP requests that handler sent, in order, with their outcome
    logged,   \* the warning or error it logged, or the exception it raised
    drift,    \* changes made at the thermostat since the last successful poll
    trip,     \* history: progress of a set-mode / enter-Away / leave-Away / poll sequence
    sensors,  \* the Sensor nodes: the thermostat each belongs to, the uom of its ST
    effects,  \* what the last poll set, in the order it set it
    api,      \* the last call of a thermostatConnection method and what it returned
    world,    \* the installation: static or dynamic discovery, and the hosts it finds
    ctl,      \* the Controller: its nodes, custom data and notices, and its last discovery
    derived   \* a string given to getValidNodeAddress and what came back

vars == <<dev, tstat, drv, command, calls, logged, drift, trip, sensors, effects, api,
          world, ctl, derived>>

\* the part of the state no handler of the thermostat node touches
elsewhere == <<api, world, ctl, derived>>

(* ----------------------------- the device ----------------------------- *)
\* POST /control: the device stores the fields it is sent
DeviceControl(d, params) ==
    [k \in DOMAIN d |-> IF k \in DOMAIN params THEN params[k] ELSE d[k]]

\* POST /settings: away 0-Home 1-Away; the mode and setpoints are other fields
DeviceSettings(d, params) ==
    [k \in DOMAIN d |-> IF k \in DOMAIN params THEN params[k] ELSE d[k]]

\* the parts of the day a running schedule can be in (0 morning .. 3 night)
ScheduleParts == {0, 2}

\* POST /settings with schedule: turned off, the schedule part is 255; turned
\* on, it is the part the time of day falls in
DeviceSchedule(d, params, part) ==
    IF "schedule" \notin DOMAIN params THEN d
    ELSE [d EXCEPT !.schedulepart = IF params.schedule = 1 THEN part
                                    ELSE IX_TSTAT_SCHED_MODE_INACTIVE]

\* The separation the thermostat keeps between its own setpoints in Auto
Separated(d) ==
    d.mode = THERMO_MODE_AUTO => d.heattemp <= d.cooltemp - d.setpointdelta

(* --------------------------- venstarapi.py ---------------------------- *)
\* _call_api: False on a timeout, connection or HTTP error, else the response
CallApiReturnsResponse(outcome) == outcome # "fail"

\* "response and response.status_code == 200"
Status200(outcome) == CallApiReturnsResponse(outcome) /\ outcome \in {"200ok", "200error"}

\* getThermostatState: the info payload, or False
getThermostatStateOk(outcome) == Status200(outcome)

\* setThermostatControls: the params it builds from the arguments that are not None
ControlParams(kwargs) ==
    [k \in DOMAIN kwargs \cap {"mode", "fan", "heattemp", "cooltemp"} |-> kwargs[k]]

\* variant: any 200 counts, whatever the body
setThermostatControlsAnyBody(outcome) ==
    IF Status200(outcome) THEN "True" ELSE "False"

\* setThermostatControls: True only for a 200 without an error field
setThermostatControls(outcome) ==
    IF Status200(outcome) /\ outcome # "200error" THEN "True" ELSE "False"

\* setThermostatSettings: print(response.text) comes before the test of the
\* response, so a False from _call_api raises AttributeError
setThermostatSettings(outcome) ==
    IF ~CallApiReturnsResponse(outcome) THEN "AttributeError"
    ELSE IF Status200(outcome) /\ outcome # "200error" THEN "True"
    ELSE "False"

\* one request as the call log keeps it: the endpoint, the parameters sent,
\* and what the wrapper method made of the answer
Call(ep, params, result) == [ep |-> ep, params |-> params, result |-> result]

\* the requests getThermostatState sends: /query/info, then /query/alerts
\* when the info came back with status 200 (the alert keys it merges into
\* the payload are read by no handler)
FetchCalls(fo) ==
    IF getThermostatStateOk(fo)
    THEN <<Call("info", <<>>, "True"), Call("alerts", <<>>, "merged")>>
    ELSE <<Call("info", <<>>, "False")>>

\* getSensorState: the sensors payload for a 200, else False
getSensorStateOk(outcome) == Status200(outcome)

\* The statuses a thermostat or something in front of it may answer with
Statuses == {200, 201, 204, 401, 404, 500}

\* One HTTP exchange of session.request: no answer within the timeout, no
\* connection, or an answer with a status and a JSON body that has an
\* "error" field or has none
Exchanges ==
    {[end |-> e, status |-> 0, error |-> FALSE] : e \in {"timeout", "connection"}}
    \cup [end : {"answer"}, status : Statuses, error : BOOLEAN]

\* _call_api: Timeout and ConnectionError are caught, and so is the HTTPError
\* raise_for_status() raises for a 4xx or 5xx other than 401; any other
\* answer is returned
CallApi(x) ==
    IF x.end # "answer" THEN "fail"
    ELSE IF x.status \notin {200, 201, 401} /\ x.status >= 400 THEN "fail"
    ELSE IF x.status = 200 THEN (IF x.error THEN "200error" ELSE "200ok")
    ELSE IF x.status = 201 THEN "201"
    ELSE IF x.status = 401 THEN "401"
    ELSE "other"

(* --------------------------- venstar-poly.py -------------------------- *)
\* Thermostat.drivers: the values a new node starts with
InitialDrivers ==
    [ST |-> 0, CLISPH |-> 0, CLISPC |-> 0, CLIMD |-> 0, CLIFS |-> 0,
     CLIHUM |-> 0, CLIHCS |-> 0, CLIFRS |-> 0, CLISMD |-> 0, GV0 |-> 0,
     GV11 |-> 0, GV12 |-> 0, GV13 |-> 0]

\* setDriver: sets the driver of that name, if the node has one
setDriver(d, name, value) ==
    IF name \in DOMAIN d THEN [d EXCEPT ![name] = value] ELSE d

\* Thermostat.setTempUnit: the node id and the uom of ST, CLISPH and CLISPC
setTempUnit(t, tempUnit) ==
    [t EXCEPT !.id = IF tempUnit = 1 THEN "THERMOSTAT_C" ELSE "THERMOSTAT",
              !.uom = IF tempUnit = 1 THEN ISY_TEMP_C_UOM ELSE ISY_TEMP_F_UOM]

\* Thermostat.saveProperties: hostName;type;tempUnit under the node's address
saveProperties(t) ==
    [t EXCEPT !.cData = <<t.hostName, t.type, t.tempUnit>>]

\* Thermostat.changeTempUnits: what it does to the thermostat node
changeTempUnits(t, tempUnit) ==
    saveProperties([setTempUnit(t, tempUnit) EXCEPT !.tempUnit = tempUnit])

\* the address of the thermostat node, and controller.nodes in the order the
\* Sensor nodes were added: two sensors of this thermostat, one of another
Address == "a1b2c3d4"
SensorOrder == <<"a1b2c3d4_s0", "a1b2c3d4_s1", "e5f6a7b8_s0">>

\* Sensor.drivers as the class has them, for a sensor of that thermostat
NewSensor(primary) == [id |-> "SENSOR", primary |-> primary, uom |-> ISY_TEMP_F_UOM]

\* Sensor.setTempUnit: the uom of ST
setSensorTempUnit(sn, tempUnit) ==
    [sn EXCEPT !.uom = IF tempUnit = 1 THEN ISY_TEMP_C_UOM ELSE ISY_TEMP_F_UOM]

\* variant: every Sensor node counts as a child
IsAnySensor(sn, address) == sn.id = "SENSOR"

\* changeTempUnits: "if node.id == 'SENSOR' and node.primary == self.address"
IsChildSensor(sn, address) == sn.id = "SENSOR" /\ sn.primary = address

\* Thermostat.changeTempUnits: what it does to the Sensor nodes
changeSensorUnits(ss, address, tempUnit) ==
    [a \in DOMAIN ss |-> IF IsChildSensor(ss[a], address)
                         THEN setSensorTempUnit(ss[a], tempUnit) ELSE ss[a]]

\* one assignment of a poll: the node it is made on and what is set
Effect(node, what) == [node |-> node, set |-> what]

\* the drivers updateNodeStates sets from the payload after the unit test
PolledFields ==
    <<"ST", "CLISPH", "CLISPC", "CLIHUM", "CLIMD", "CLIFS", "CLIHCS", "CLIFRS",
      "CLISMD", "GV1">>

\* Thermostat.changeTempUnits: its assignments in program order
UnitEffects(ss, address) ==
    LET children == SelectSeq(SensorOrder, LAMBDA a : IsChildSensor(ss[a], address))
    IN  <<Effect(address, "id"), Effect(address, "uom"), Effect(address, "updateNode")>>
        \o [i \in 1..Len(children) |-> Effect(children[i], "uom")]
        \o <<Effect(address, "tempUnit"), Effect(address, "saveProperties")>>

\* variant: the unit is changed after the drivers are set
PollEffectsUnitLast(ss, address, changed) ==
    <<Effect(address, "GV0")>>
    \o [i \in 1..Len(PolledFields) |-> Effect(address, PolledFields[i])]
    \o (IF changed THEN UnitEffects(ss, address) ELSE <<>>)

\* updateNodeStates after a successful fetch: its assignments in program order
PollEffects(ss, address, changed) ==
    <<Effect(address, "GV0")>>
    \o (IF changed THEN UnitEffects(ss, address) ELSE <<>>)
    \o [i \in 1..Len(PolledFields) |-> Effect(address, PolledFields[i])]

\* variant: in Auto only the heat setpoint is moved
IncDecPairHeatOnlyInAuto(cmd, mode, sph, spc) ==
    LET step == IF cmd = "BRT" THEN 1 ELSE -1
    IN  [heattemp |-> IF mode \in {THERMO_MODE_HEAT, THERMO_MODE_AUTO}
                      THEN sph + step ELSE sph,
         cooltemp |-> IF mode = THERMO_MODE_COOL THEN spc + step ELSE spc]

\* variant: in Auto the cool setpoint is moved the other way
IncDecPairOpposedInAuto(cmd, mode, sph, spc) ==
    LET step == IF cmd = "BRT" THEN 1 ELSE -1
    IN  [heattemp |-> IF mode \in {THERMO_MODE_HEAT, THERMO_MODE_AUTO}
                      THEN sph + step ELSE sph,
         cooltemp |-> IF mode = THERMO_MODE_COOL THEN spc + step
                      ELSE IF mode = THERMO_MODE_AUTO THEN spc - step ELSE spc]

\* cmd_inc_dec: the setpoints after one degree up (BRT) or down (DIM)
IncDecPair(cmd, mode, sph, spc) ==
    LET step == IF cmd = "BRT" THEN 1 ELSE -1
    IN  [heattemp |-> IF mode \in {THERMO_MODE_HEAT, THERMO_MODE_AUTO}
                      THEN sph + step ELSE sph,
         cooltemp |-> IF mode \in {THERMO_MODE_COOL, THERMO_MODE_AUTO}
                      THEN spc + step ELSE spc]

\* variant: the Off test is missing
IncDecRefusedAwayOnly(away, mode) ==
    IF away THEN "away" ELSE "none"

\* cmd_inc_dec: the two conditions under which nothing is adjusted
IncDecRefused(away, mode) ==
    IF away THEN "away" ELSE IF mode = THERMO_MODE_OFF THEN "off" ELSE "none"

\* cmd_set_sp: the fetched pair with the commanded setpoint replaced
SetSpPair(cmd, value, sph, spc) ==
    [heattemp |-> IF cmd = "SET_CLISPH" THEN value ELSE sph,
     cooltemp |-> IF cmd = "SET_CLISPH" THEN spc ELSE value]

\* variant: a pair exactly the separation apart is refused too
DeltaViolatedInclusive(mode, sph, spc, setpointDelta) ==
    mode = THERMO_MODE_AUTO /\ (spc - sph) <= setpointDelta

\* cmd_set_sp: "make sure spc > sph by setpoint delta degrees if in auto mode"
DeltaViolated(mode, sph, spc, setpointDelta) ==
    mode = THERMO_MODE_AUTO /\ (spc - sph) < setpointDelta

\* variant: the away test is missing
SetSpRefusedDeltaOnly(away, mode, pair, setpointDelta) ==
    IF mode = THERMO_MODE_AUTO /\ (pair.cooltemp - pair.heattemp) < setpointDelta
    THEN "delta" ELSE "none"

\* cmd_set_sp: away is tested before anything is replaced or sent
SetSpRefused(away, mode, pair, setpointDelta) ==
    IF away THEN "away"
    ELSE IF DeltaViolated(mode, pair.heattemp, pair.cooltemp, setpointDelta) THEN "delta"
    ELSE "none"

\* variant: the away test is missing
SetFanRefusedNever(away) == "none"

\* cmd_set_fan: "can't change settings while in away mode"
SetFanRefused(away) == IF away THEN "away" ELSE "none"

\* cmd_set_fan: the keyword arguments of its setThermostatControls call
SetFanKwargs(fan) == [fan |-> fan]

\* variant: the mode argument is left out
SetModeKwargsWithoutMode(newMode, sph, spc) ==
    [heattemp |-> sph, cooltemp |-> spc]

\* cmd_set_mode: the keyword arguments of its setThermostatControls call
SetModeKwargs(newMode, sph, spc) ==
    [mode |-> newMode, heattemp |-> sph, cooltemp |-> spc]

\* variant: away is not cleared before the mode is set
SetModeFirstSettingNoClear(newMode, away) ==
    IF newMode = IX_TSTAT_MODE_AWAY THEN <<[away |-> 1]>> ELSE <<>>

\* cmd_set_mode: the settings call that comes first, if any
\* (away=1 for the Away target, away=0 when leaving Away, none otherwise)
SetModeFirstSetting(newMode, away) ==
    IF newMode = IX_TSTAT_MODE_AWAY THEN <<[away |-> 1]>>
    ELSE IF away THEN <<[away |-> 0]>>
    ELSE <<>>

\* variant: the control call is sent for the Away target as well
SetModeSendsControlAlways(newMode) == TRUE

\* cmd_set_mode: whether a control call follows the settings call
SetModeSendsControl(newMode) == newMode # IX_TSTAT_MODE_AWAY

\* variant: the away flag is not looked at
ReportedModeIgnoringAway(away, mode) == mode

\* updateNodeStates: the mode reported in CLIMD
ReportedMode(away, mode) ==
    IF away = 1 THEN IX_TSTAT_MODE_AWAY ELSE mode

\* variant: the state is reported as the thermostat gives it
ReportedStateRaw(state) == state

\* updateNodeStates: the heat/cool state reported in CLIHCS
ReportedState(state) ==
    IF state \in {0, 1, 2} THEN state ELSE state + 10

\* variant: the fan mode is left as the last command set it
PolledDriversFanKept(d, thermoState) ==
    LET d1 == setDriver(d, "GV0", 1)
        d2 == setDriver(d1, "ST", thermoState.spacetemp)
        d3 == setDriver(d2, "CLISPH", thermoState.heattemp)
        d4 == setDriver(d3, "CLISPC", thermoState.cooltemp)
        d5 == setDriver(d4, "CLIHUM", thermoState.hum)
        d6 == setDriver(d5, "CLIMD", ReportedMode(thermoState.away, thermoState.mode))
        d8 == setDriver(d6, "CLIHCS", ReportedState(thermoState.state))
        d9 == setDriver(d8, "CLIFRS", thermoState.fanstate)
    IN  setDriver(d9, "CLISMD", thermoState.schedulepart)

\* updateNodeStates: the drivers after a successful fetch of thermoState
\* (GV1 is set too, but the node has no GV1 driver)
PolledDrivers(d, thermoState) ==
    LET d1 == setDriver(d, "GV0", 1)
        d2 == setDriver(d1, "ST", thermoState.spacetemp)
        d3 == setDriver(d2, "CLISPH", thermoState.heattemp)
        d4 == setDriver(d3, "CLISPC", thermoState.cooltemp)
        d5 == setDriver(d4, "CLIHUM", thermoState.hum)
        d6 == setDriver(d5, "CLIMD", ReportedMode(thermoState.away, thermoState.mode))
        d7 == setDriver(d6, "CLIFS", thermoState.fan)
        d8 == setDriver(d7, "CLIHCS", ReportedState(thermoState.state))
        d9 == setDriver(d8, "CLIFRS", thermoState.fanstate)
        d10 == setDriver(d9, "CLISMD", thermoState.schedulepart)
    IN  setDriver(d10, "GV1", thermoState.away)

(* ------------------------------ history ------------------------------- *)
\* the last request of a handler was a write and the device accepted it
WriteAccepted(cs) ==
    /\ cs # <<>>
    /\ cs[Len(cs)].ep \in {"control", "settings"}
    /\ cs[Len(cs)].result = "True"

ControlAccepted(cs) ==
    \E i \in 1..Len(cs) : cs[i].ep = "control" /\ cs[i].result = "True"

NoTrip == [stage |-> 0, mode |-> 0]

\* stage 1: a mode-set to M succeeded; 2: then a mode-set to Away succeeded;
\* 3: then the away flag was cleared with no control write; 4: then a poll
\* succeeded.  Any other handler or change starts over.
TripNext(t, d, d2, cmd2, cs2) ==
    IF cmd2.op = "cmd_set_mode" /\ cmd2.value # IX_TSTAT_MODE_AWAY /\ WriteAccepted(cs2)
    THEN [stage |-> 1, mode |-> cmd2.value]
    ELSE IF t.stage = 1 /\ cmd2.op = "cmd_set_mode"
            /\ cmd2.value = IX_TSTAT_MODE_AWAY /\ WriteAccepted(cs2)
    THEN [t EXCEPT !.stage = 2]
    ELSE IF t.stage = 2 /\ d.away = 1 /\ d2.away = 0 /\ ~ControlAccepted(cs2)
    THEN [t EXCEPT !.stage = 3]
    ELSE IF t.stage = 3 /\ cmd2.op = "updateNodeStates" /\ cs2[1].result = "True"
    THEN [t EXCEPT !.stage = 4]
    ELSE NoTrip

\* no handler is running and none has just returned
NoCommand == [op |-> "none", cmd |-> "none", value |-> 0]

\* what a handler leaves behind when it returns or raises
Finish(cmd2, cs2, lg2, drv2, dev2) ==
    /\ command' = cmd2
    /\ calls' = cs2
    /\ logged' = lg2
    /\ drv' = drv2
    /\ dev' = dev2
    /\ trip' = TripNext(trip, dev, dev2, cmd2, cs2)

(* ------------------------------ handlers ------------------------------ *)
\* the device stores a write exactly when it answers 200 without an error
Applied(d, d2, outcome) == IF outcome = "200ok" THEN d2 ELSE d

\* Thermostat.cmd_inc_dec (BRT, DIM); FO and PO are the outcomes the GET and
\* the POST may have
cmd_inc_dec(cmd, FO, PO) ==
    LET c == [op |-> "cmd_inc_dec", cmd |-> cmd, value |-> 0]
        thermostatState == dev
        away == (thermostatState.away = 1)
        refused == IncDecRefused(away, thermostatState.mode)
        pair == IncDecPair(cmd, thermostatState.mode,
                           thermostatState.heattemp, thermostatState.cooltemp)
        params == ControlParams(pair)
    IN  \E fo \in FO :
        IF ~getThermostatStateOk(fo)
        THEN Finish(c, FetchCalls(fo), "none", drv, dev)
        ELSE IF refused # "none"
        THEN Finish(c, FetchCalls(fo), refused, drv, dev)
        ELSE /\ pair.heattemp \in Temps
             /\ pair.cooltemp \in Temps
             /\ \E wo \in PO :
                LET r == setThermostatControls(wo)
                    sent == Append(FetchCalls(fo), Call("control", params, r))
                    dev2 == Applied(dev, DeviceControl(dev, params), wo)
                IN  IF r = "True"
                    THEN Finish(c, sent, "none",
                                setDriver(setDriver(drv, "CLISPH", pair.heattemp),
                                          "CLISPC", pair.cooltemp), dev2)
                    ELSE Finish(c, sent, "error", drv, dev2)

\* variant: the other setpoint and the away test come from the drivers
cmd_set_spFromDrivers(cmd, value, FO, PO) ==
    LET c == [op |-> "cmd_set_sp", cmd |-> cmd, value |-> value]
        away == (drv.CLIMD = IX_TSTAT_MODE_AWAY)
        pair == SetSpPair(cmd, value, drv.CLISPH, drv.CLISPC)
        refused == SetSpRefused(away, dev.mode, pair, dev.setpointdelta)
        params == ControlParams(pair)
    IN  \E fo \in FO :
        IF ~getThermostatStateOk(fo)
        THEN Finish(c, FetchCalls(fo), "none", drv, dev)
        ELSE IF refused # "none"
        THEN Finish(c, FetchCalls(fo), refused, drv, dev)
        ELSE \E wo \in PO :
             LET r == setThermostatControls(wo)
                 sent == Append(FetchCalls(fo), Call("control", params, r))
                 dev2 == Applied(dev, DeviceControl(dev, params), wo)
             IN  IF r = "True"
                 THEN Finish(c, sent, "none",
                             setDriver(setDriver(drv, "CLISPH", pair.heattemp),
                                       "CLISPC", pair.cooltemp), dev2)
                 ELSE Finish(c, sent, "error", drv, dev2)

\* Thermostat.cmd_set_sp (SET_CLISPH, SET_CLISPC)
cmd_set_sp(cmd, value, FO, PO) ==
    LET c == [op |-> "cmd_set_sp", cmd |-> cmd, value |-> value]
        thermostatState == dev
        away == (thermostatState.away = 1)
        pair == SetSpPair(cmd, value, thermostatState.heattemp, thermostatState.cooltemp)
        refused == SetSpRefused(away, thermostatState.mode, pair,
                                thermostatState.setpointdelta)
        params == ControlParams(pair)
    IN  \E fo \in FO :
        IF ~getThermostatStateOk(fo)
        THEN Finish(c, FetchCalls(fo), "none", drv, dev)
        ELSE IF refused # "none"
        THEN Finish(c, FetchCalls(fo), refused, drv, dev)
        ELSE \E wo \in PO :
             LET r == setThermostatControls(wo)
                 sent == Append(FetchCalls(fo), Call("control", params, r))
                 dev2 == Applied(dev, DeviceControl(dev, params), wo)
             IN  IF r = "True"
                 THEN Finish(c, sent, "none",
                             setDriver(setDriver(drv, "CLISPH", pair.heattemp),
                                       "CLISPC", pair.cooltemp), dev2)
                 ELSE Finish(c, sent, "error", drv, dev2)

\* Thermostat.cmd_set_mode (SET_CLIMD)
cmd_set_mode(newMode, FO, PO) ==
    LET c == [op |-> "cmd_set_mode", cmd |-> "SET_CLIMD", value |-> newMode]
        thermostatState == dev
        away == (thermostatState.away = 1)
        first == SetModeFirstSetting(newMode, away)
        params == ControlParams(SetModeKwargs(newMode, thermostatState.heattemp,
                                              thermostatState.cooltemp))
    IN  \E fo \in FO :
        IF ~getThermostatStateOk(fo)
        THEN Finish(c, FetchCalls(fo), "none", drv, dev)
        ELSE \E so \in (IF first = <<>> THEN {"200ok"} ELSE PO) :
             LET r1 == IF first = <<>> THEN "True" ELSE setThermostatSettings(so)
                 sent1 == FetchCalls(fo) \o
                          [i \in 1..Len(first) |-> Call("settings", first[i], r1)]
                 dev1 == IF first = <<>> THEN dev
                         ELSE Applied(dev, DeviceSettings(dev, first[1]), so)
             IN  IF r1 = "AttributeError"
                 THEN Finish(c, sent1, "AttributeError", drv, dev1)
                 ELSE IF r1 = "False"
                 THEN Finish(c, sent1, "error", drv, dev1)
                 ELSE IF ~SetModeSendsControl(newMode)
                 THEN Finish(c, sent1, "none", setDriver(drv, "CLIMD", newMode), dev1)
                 ELSE \E wo \in PO :
                      LET r2 == setThermostatControls(wo)
                          sent2 == Append(sent1, Call("control", params, r2))
                          dev2 == Applied(dev1, DeviceControl(dev1, params), wo)
                      IN  IF r2 = "True"
                          THEN Finish(c, sent2, "none",
                                      setDriver(drv, "CLIMD", newMode), dev2)
                          ELSE Finish(c, sent2, "error", drv, dev2)

\* variant: the fan driver is set before the result of the write is known
cmd_set_fanBeforeResult(fan, FO, PO) ==
    LET c == [op |-> "cmd_set_fan", cmd |-> "SET_CLIFS", value |-> fan]
        away == (dev.away = 1)
        params == ControlParams(SetFanKwargs(fan))
    IN  \E fo \in FO :
        IF ~getThermostatStateOk(fo)
        THEN Finish(c, FetchCalls(fo), "none", drv, dev)
        ELSE IF SetFanRefused(away) # "none"
        THEN Finish(c, FetchCalls(fo), SetFanRefused(away), drv, dev)
        ELSE \E wo \in PO :
             LET r == setThermostatControls(wo)
                 sent == Append(FetchCalls(fo), Call("control", params, r))
                 dev2 == Applied(dev, DeviceControl(dev, params), wo)
             IN  Finish(c, sent, IF r = "True" THEN "none" ELSE "error",
                        setDriver(drv, "CLIFS", fan), dev2)

\* Thermostat.cmd_set_fan (SET_CLIFS)
cmd_set_fan(fan, FO, PO) ==
    LET c == [op |-> "cmd_set_fan", cmd |-> "SET_CLIFS", value |-> fan]
        thermostatState == dev
        away == (thermostatState.away = 1)
        params == ControlParams(SetFanKwargs(fan))
    IN  \E fo \in FO :
        IF ~getThermostatStateOk(fo)
        THEN Finish(c, FetchCalls(fo), "none", drv, dev)
        ELSE IF SetFanRefused(away) # "none"
        THEN Finish(c, FetchCalls(fo), SetFanRefused(away), drv, dev)
        ELSE \E wo \in PO :
             LET r == setThermostatControls(wo)
                 sent == Append(FetchCalls(fo), Call("control", params, r))
                 dev2 == Applied(dev, DeviceControl(dev, params), wo)
             IN  IF r = "True"
                 THEN Finish(c, sent, "none", setDriver(drv, "CLIFS", fan), dev2)
                 ELSE Finish(c, sent, "error", drv, dev2)

\* variant: the away test is missing
SetSchedRefusedNever(away) == "none"

\* cmd_set_sched: "can't change settings while in away mode"
SetSchedRefused(away) == IF away THEN "away" ELSE "none"

\* cmd_set_sched: "schedMode = 1 if cmd == 'SCHED_ON' else 0"
SchedMode(cmd) == IF cmd = "SCHED_ON" THEN 1 ELSE 0

\* variant: the schedule driver is left alone when the schedule is turned on
SchedDriverOffOnly(cached, schedMode) ==
    IF schedMode = 1 THEN cached ELSE IX_TSTAT_SCHED_MODE_INACTIVE

\* cmd_set_sched: the value CLISMD is given after an accepted write
SchedDriver(cached, schedMode) ==
    IF schedMode = 1 THEN IX_TSTAT_SCHED_MODE_ACTIVE ELSE IX_TSTAT_SCHED_MODE_INACTIVE

\* variant: the write is sent whether or not the state came back
cmd_set_schedUnfetched(cmd, FO, PO) ==
    LET c == [op |-> "cmd_set_sched", cmd |-> cmd, value |-> 0]
        schedMode == SchedMode(cmd)
        params == [schedule |-> schedMode]
    IN  \E fo \in FO :
        IF getThermostatStateOk(fo) /\ dev.away = 1
        THEN Finish(c, FetchCalls(fo), "away", drv, dev)
        ELSE \E wo \in PO, part \in ScheduleParts :
             LET r == setThermostatSettings(wo)
                 sent == Append(FetchCalls(fo), Call("settings", params, r))
                 dev2 == Applied(dev, DeviceSchedule(dev, params, part), wo)
             IN  IF r = "True"
                 THEN Finish(c, sent, "none",
                             setDriver(drv, "CLISMD", SchedDriver(drv.CLISMD, schedMode)),
                             dev2)
                 ELSE IF r = "AttributeError"
                 THEN Finish(c, sent, "AttributeError", drv, dev2)
                 ELSE Finish(c, sent, "error", drv, dev2)

\* Thermostat.cmd_set_sched (SCHED_ON, SCHED_OFF)
cmd_set_sched(cmd, FO, PO) ==
    LET c == [op |-> "cmd_set_sched", cmd |-> cmd, value |-> 0]
        thermostatState == dev
        away == (thermostatState.away = 1)
        schedMode == SchedMode(cmd)
        params == [schedule |-> schedMode]
    IN  \E fo \in FO :
        IF ~getThermostatStateOk(fo)
        THEN Finish(c, FetchCalls(fo), "none", drv, dev)
        ELSE IF SetSchedRefused(away) # "none"
        THEN Finish(c, FetchCalls(fo), SetSchedRefused(away), drv, dev)
        ELSE \E wo \in PO, part \in ScheduleParts :
             LET r == setThermostatSettings(wo)
                 sent == Append(FetchCalls(fo), Call("settings", params, r))
                 dev2 == Applied(dev, DeviceSchedule(dev, params, part), wo)
             IN  IF r = "True"
                 THEN Finish(c, sent, "none",
                             setDriver(drv, "CLISMD", SchedDriver(drv.CLISMD, schedMode)),
                             dev2)
                 ELSE IF r = "AttributeError"
                 THEN Finish(c, sent, "AttributeError", drv, dev2)
                 ELSE Finish(c, sent, "error", drv, dev2)

\* the keyword arguments the handlers call setThermostatControls with
ControlKwargs ==
    {SetFanKwargs(f) : f \in FanModes}
    \cup {[heattemp |-> h, cooltemp |-> c] : h \in Temps, c \in Temps}
    \cup {SetModeKwargs(m, h, c) : m \in CommandModes, h \in Temps, c \in Temps}

\* variant: a failed fetch puts the drivers back to their first values
updateNodeStatesResetOffline(FO) ==
    LET c == [op |-> "updateNodeStates", cmd |-> "shortPoll", value |-> 0]
        thermoState == dev
        changed == thermoState.tempunits # tstat.tempUnit
    IN  \E fo \in FO :
        IF getThermostatStateOk(fo)
        THEN /\ tstat' = IF changed THEN changeTempUnits(tstat, thermoState.tempunits)
                         ELSE tstat
             /\ sensors' = IF changed
                           THEN changeSensorUnits(sensors, Address, thermoState.tempunits)
                           ELSE sensors
             /\ effects' = PollEffects(sensors, Address, changed)
             /\ Finish(c, FetchCalls(fo), "none", PolledDrivers(drv, thermoState), dev)
        ELSE /\ tstat' = tstat
             /\ sensors' = sensors
             /\ effects' = <<Effect(Address, "GV0")>>
             /\ Finish(c, FetchCalls(fo), "none", InitialDrivers, dev)

\* Thermostat.updateNodeStates, as Controller.shortPoll calls it
updateNodeStates(FO) ==
    LET c == [op |-> "updateNodeStates", cmd |-> "shortPoll", value |-> 0]
        thermoState == dev
        changed == thermoState.tempunits # tstat.tempUnit
    IN  \E fo \in FO :
        IF getThermostatStateOk(fo)
        THEN /\ tstat' = IF changed THEN changeTempUnits(tstat, thermoState.tempunits)
                         ELSE tstat
             /\ sensors' = IF changed
                           THEN changeSensorUnits(sensors, Address, thermoState.tempunits)
                           ELSE sensors
             /\ effects' = PollEffects(sensors, Address, changed)
             /\ Finish(c, FetchCalls(fo), "none", PolledDrivers(drv, thermoState), dev)
        ELSE /\ tstat' = tstat
             /\ sensors' = sensors
             /\ effects' = <<Effect(Address, "GV0")>>
             /\ Finish(c, FetchCalls(fo), "none", setDriver(drv, "GV0", 0), dev)

(* ------------------------------ actions ------------------------------- *)
\* polyinterface runs one handler at a time: the next starts after the
\* last has returned
Idle == command.op = "none"

IncDec ==
    /\ Idle
    /\ \E cmd \in {"BRT", "DIM"} : cmd_inc_dec(cmd, GetOutcomes, PostOutcomes)
    /\ UNCHANGED <<tstat, drift, sensors, effects, elsewhere>>

SetSp ==
    /\ Idle
    /\ \E cmd \in {"SET_CLISPH", "SET_CLISPC"}, value \in Temps :
           cmd_set_sp(cmd, value, GetOutcomes, PostOutcomes)
    /\ UNCHANGED <<tstat, drift, sensors, effects, elsewhere>>

SetMode ==
    /\ Idle
    /\ \E newMode \in CommandModes : cmd_set_mode(newMode, GetOutcomes, PostOutcomes)
    /\ UNCHANGED <<tstat, drift, sensors, effects, elsewhere>>

SetFan ==
    /\ Idle
    /\ \E fan \in FanModes : cmd_set_fan(fan, GetOutcomes, PostOutcomes)
    /\ UNCHANGED <<tstat, drift, sensors, effects, elsewhere>>

SetSched ==
    /\ Idle
    /\ \E cmd \in {"SCHED_ON", "SCHED_OFF"} : cmd_set_sched(cmd, GetOutcomes, PostOutcomes)
    /\ UNCHANGED <<tstat, drift, sensors, effects, elsewhere>>

ShortPoll ==
    /\ Idle
    /\ updateNodeStates(GetOutcomes)
    /\ drift' = IF calls'[1].result = "True" THEN 0 ELSE drift
    /\ UNCHANGED elsewhere

\* everything the thermostat node's handlers read or write
nodeVars == <<dev, tstat, drv, command, calls, logged, drift, trip, sensors, effects>>

\* thermostatConnection.getThermostatState called on its own
ApiGetThermostatState ==
    \E x1 \in Exchanges, x2 \in Exchanges :
        /\ api' = [op |-> "getThermostatState", params |-> <<>>,
                   exchanges |-> IF getThermostatStateOk(CallApi(x1))
                                 THEN <<x1, x2>> ELSE <<x1>>,
                   result |-> IF getThermostatStateOk(CallApi(x1))
                              THEN "payload" ELSE "False"]
        /\ UNCHANGED <<nodeVars, world, ctl, derived>>

\* thermostatConnection.getSensorState
ApiGetSensorState ==
    \E x \in Exchanges :
        /\ api' = [op |-> "getSensorState", params |-> <<>>, exchanges |-> <<x>>,
                   result |-> IF getSensorStateOk(CallApi(x)) THEN "payload" ELSE "False"]
        /\ UNCHANGED <<nodeVars, world, ctl, derived>>

\* thermostatConnection.setThermostatControls with the arguments a handler
\* may give it
ApiSetThermostatControls ==
    \E kwargs \in ControlKwargs, x \in Exchanges :
        /\ api' = [op |-> "setThermostatControls", params |-> ControlParams(kwargs),
                   exchanges |-> <<x>>, result |-> setThermostatControls(CallApi(x))]
        /\ UNCHANGED <<nodeVars, world, ctl, derived>>

\* thermostatConnection.setThermostatSettings
ApiSetThermostatSettings ==
    \E setting \in {"away", "schedule", "tempunits"}, value \in {0, 1}, x \in Exchanges :
        /\ api' = [op |-> "setThermostatSettings", params |-> <<setting, value>>,
                   exchanges |-> <<x>>, result |-> setThermostatSettings(CallApi(x))]
        /\ UNCHANGED <<nodeVars, world, ctl, derived>>

\* the handler's result has been seen; the next command or poll may start
Return ==
    /\ ~Idle
    /\ command' = NoCommand
    /\ calls' = <<>>
    /\ logged' = "none"
    /\ effects' = <<>>
    /\ UNCHANGED <<dev, tstat, drv, drift, trip, sensors, elsewhere>>

\* Somebody at the thermostat changes one of its settings; the thermostat
\* itself keeps its Auto setpoints apart.
DeviceChange ==
    /\ Idle
    /\ drift < MaxDrift
    /\ \E d2 \in ( {[dev EXCEPT !.mode = m] : m \in DeviceModes}
                   \cup {[dev EXCEPT !.heattemp = t] : t \in Temps}
                   \cup {[dev EXCEPT !.cooltemp = t] : t \in Temps}
                   \cup {[dev EXCEPT !.away = a] : a \in {0, 1}}
                   \cup {[dev EXCEPT !.fan = f] : f \in FanModes} ) :
           /\ d2 # dev
           /\ Separated(dev) => Separated(d2)
           /\ dev' = d2
           /\ trip' = TripNext(trip, dev, d2, [NoCommand EXCEPT !.op = "device"], <<>>)
    /\ drift' = drift + 1
    /\ UNCHANGED <<tstat, drv, command, calls, logged, sensors, effects, elsewhere>>

\* What happens at the thermostat between polls as far as a poll shows it:
\* heating or cooling starts or stops, the fan starts or stops, the schedule
\* moves on, somebody changes the unit or presses Away
DeviceRuns ==
    /\ Idle
    /\ \E d2 \in ( {[dev EXCEPT !.state = v] : v \in 0..MaxRawState}
                   \cup {[dev EXCEPT !.tempunits = u] : u \in {0, 1}}
                   \cup {[dev EXCEPT !.fanstate = f] : f \in {0, 1}}
                   \cup {[dev EXCEPT !.schedulepart = q] :
                             q \in ScheduleParts \cup {IX_TSTAT_SCHED_MODE_INACTIVE}}
                   \cup {[dev EXCEPT !.away = a] : a \in {0, 1}} ) :
           /\ d2 # dev
           /\ dev' = d2
    /\ UNCHANGED <<tstat, drv, command, calls, logged, drift, trip, sensors, effects,
                   elsewhere>>

\* A thermostat as a command or poll may find it.  It is set to Celsius
\* while the node was created for Fahrenheit, so the first successful poll
\* changes the node's unit.
DeviceStates ==
    {d \in [mode : DeviceModes, fan : FanModes, heattemp : Temps, cooltemp : Temps,
            away : {0, 1}, setpointdelta : {SetpointDelta}, tempunits : {1},
            spacetemp : {LowTemp}, hum : {40}, state : {0}, fanstate : {0},
            schedulepart : {IX_TSTAT_SCHED_MODE_INACTIVE}] : Separated(d)}

\* The node as Thermostat.__init__ leaves it: setTempUnit, then saveProperties
NewThermostat(hostName, type, tempUnit) ==
    saveProperties(setTempUnit(
        [hostName |-> hostName, type |-> type, tempUnit |-> tempUnit,
         id |-> "THERMOSTAT", uom |-> ISY_TEMP_F_UOM, cData |-> <<>>], tempUnit))

\* the Sensor nodes as discovery created them, for Fahrenheit thermostats
InitialSensors ==
    [a \in {SensorOrder[i] : i \in 1..Len(SensorOrder)} |->
        NewSensor(IF a = "e5f6a7b8_s0" THEN "e5f6a7b8" ELSE Address)]

\* no method of the connection has been called yet
NoApiCall == [op |-> "none", params |-> <<>>, exchanges |-> <<>>, result |-> "none"]

(* ----------------------------- discovery ----------------------------- *)
(* Identity strings and node addresses are sequences of characters.        *)

\* s[-n:]
LastN(s, n) == IF Len(s) <= n THEN s ELSE SubSeq(s, Len(s) - n + 1, Len(s))

Digits == <<"0", "1", "2", "3", "4", "5", "6", "7", "8", "9",
            "a", "b", "c", "d", "e", "f">>

RECURSIVE StripZeros(_)
StripZeros(s) == IF Len(s) > 1 /\ Head(s) = "0" THEN StripZeros(Tail(s)) ELSE s

\* str(hex(int(IPv4Address(a)))) for the address with these four octets:
\* "0x" and the hexadecimal digits of the number without leading zeros
HexOfAddress(octets) ==
    LET pairs == [i \in 1..8 |->
                     LET o == octets[(i + 1) \div 2]
                     IN  Digits[(IF i % 2 = 1 THEN o \div 16 ELSE o % 16) + 1]]
    IN  <<"0", "x">> \o StripZeros(pairs)

\* discover, static mode: "id = str(hex(int(IPv4Address(...))))[-8:]"
StaticId(octets) == LastN(HexOfAddress(octets), 8)

RECURSIVE Str(_)
\* str(n) for n >= 0
Str(n) == IF n < 10 THEN <<Digits[n + 1]>> ELSE Str(n \div 10) \o <<Digits[(n % 10) + 1]>>

\* the characters getValidNodeAddress removes
InvalidChars ==
    {"<", ">", "`", "~", "!", "@", "#", "$", "%", "^", "&", "*", "(", ")", "{", "}",
     "[", "]", "?", "/", "\\", ";", ":", "\"", "'"}

UpperCase == <<"A", "B", "C", "D", "E", "F", "S">>
LowerCase == <<"a", "b", "c", "d", "e", "f", "s">>

\* str.lower() on one character (of the letters that occur)
Lower(c) ==
    IF \E i \in 1..Len(UpperCase) : UpperCase[i] = c
    THEN LowerCase[CHOOSE i \in 1..Len(UpperCase) : UpperCase[i] = c]
    ELSE c

\* variant: the case of the letters is kept
getValidNodeAddressCaseKept(s) ==
    LastN(SelectSeq(s, LAMBDA c : c \notin InvalidChars), 14)

\* getValidNodeAddress: invalid characters removed, the last 14, lowercased
getValidNodeAddress(s) ==
    LET addr == LastN(SelectSeq(s, LAMBDA c : c \notin InvalidChars), 14)
    IN  [i \in 1..Len(addr) |-> Lower(addr[i])]

\* What answers at each hostname: whether the name resolves and to which
\* address, the id in the USN of its SSDP answer, what the info query
\* gives (no answer, or the type, unit and sensor list of the thermostat)
Hosts ==
    [h \in {"upstairs", "garage", "office", "attic", "nohost"} |->
       CASE h = "upstairs" ->
               [resolves |-> TRUE, ip |-> <<192, 168, 1, 20>>,
                id |-> <<"0", "0", "2", "3", "A", "7", "3", "C", "0", "1", "F", "E">>,
                info |-> TRUE, type |-> "residential", tempunits |-> 0,
                sensors |-> <<"Remote", "Space Temp", "Outdoor">>]
         [] h = "garage" ->
               [resolves |-> TRUE, ip |-> <<10, 0, 0, 5>>,
                id |-> <<"0", "0", "2", "3", "A", "7", "3", "C", "0", "2", "0", "B">>,
                info |-> TRUE, type |-> "residential", tempunits |-> 1,
                sensors |-> <<"Space Temp", "Porch">>]
         [] h = "office" ->
               [resolves |-> TRUE, ip |-> <<192, 168, 1, 30>>,
                id |-> <<"0", "0", "2", "3", "A", "7", "4", "D", "1", "1", "0", "0">>,
                info |-> TRUE, type |-> "commercial", tempunits |-> 0,
                sensors |-> <<"Space Temp">>]
         [] h = "attic" ->
               [resolves |-> TRUE, ip |-> <<192, 168, 1, 40>>,
                id |-> <<"0", "0", "2", "3", "A", "7", "5", "E", "2", "2", "0", "0">>,
                info |-> FALSE, type |-> "residential", tempunits |-> 0,
                sensors |-> <<>>]
         [] OTHER ->
               [resolves |-> FALSE, ip |-> <<0, 0, 0, 0>>, id |-> <<>>,
                info |-> FALSE, type |-> "residential", tempunits |-> 0,
                sensors |-> <<>>]]

\* Controller.addNotice
Notice(kind, host, type) == [kind |-> kind, host |-> host, type |-> type]

\* discover, static mode: the hostnames of the "hostname" parameter resolved
\* in turn; one that does not resolve gives a notice and is passed over
RECURSIVE ResolveHosts(_, _, _)
ResolveHosts(hosts, i, acc) ==
    IF i > Len(hosts) THEN acc
    ELSE LET host == hosts[i]
             tried == [acc EXCEPT !.resolved = Append(@, host)]
         IN  ResolveHosts(hosts, i + 1,
                IF ~Hosts[host].resolves
                THEN [tried EXCEPT !.notices = Append(@, Notice("unresolved", host, ""))]
                ELSE [tried EXCEPT !.thermostats =
                         Append(@, [id |-> StaticId(Hosts[host].ip), hostname |-> host])])

\* api.discoverThermostats: the id and hostname of every thermostat that
\* answered the search
discoverThermostats(hosts) ==
    [i \in 1..Len(hosts) |-> [id |-> Hosts[hosts[i]].id, hostname |-> hosts[i]]]

\* polyinterface addNode: the node is kept under its address
addNode(acc, addr, node) ==
    [acc EXCEPT !.nodes = (addr :> node) @@ @,
                !.order = IF addr \in DOMAIN acc.nodes THEN @ ELSE Append(@, addr),
                !.created = Append(@, addr)]

\* the entry for a thermostat node: the Thermostat as its __init__ leaves it
ThermostatNode(hostName, type, tempUnit) ==
    LET t == NewThermostat(hostName, type, tempUnit)
    IN  [id |-> t.id, primary |-> "controller", uom |-> t.uom, hostName |-> t.hostName,
         type |-> t.type, tempUnit |-> t.tempUnit, drv |-> InitialDrivers,
         conn |-> "open"]

\* the entry for a sensor node: the Sensor as its __init__ leaves it
SensorNode(primary, name, tempUnit) ==
    LET sn == setSensorTempUnit(NewSensor(primary), tempUnit)
    IN  [id |-> sn.id, primary |-> sn.primary, uom |-> sn.uom, name |-> name]

\* variant: every sensor is numbered 0
SensorAddressUnnumbered(thermostatAddr, n) ==
    getValidNodeAddress(thermostatAddr \o <<"_", "S">> \o Str(0))

\* discover: "sensorAddr = getValidNodeAddress(thermostatAddr + '_S' + str(n))"
SensorAddress(thermostatAddr, n) ==
    getValidNodeAddress(thermostatAddr \o <<"_", "S">> \o Str(n))

\* discover: a Sensor node is added for every sensor but "Space Temp", the
\* n-th of them under thermostatAddr + "_S" + str(n)
RECURSIVE AddSensors(_, _, _, _, _, _)
AddSensors(acc, thermostatAddr, names, i, n, tempUnit) ==
    IF i > Len(names) THEN acc
    ELSE IF names[i] = "Space Temp"
    THEN AddSensors(acc, thermostatAddr, names, i + 1, n, tempUnit)
    ELSE LET sensorAddr == SensorAddress(thermostatAddr, n)
         IN  AddSensors(addNode(acc, sensorAddr, SensorNode(thermostatAddr, names[i], tempUnit)),
                        thermostatAddr, names, i + 1, n + 1, tempUnit)

\* variant: a thermostat node is made whether or not the address is known
IsNewThermostatAlways(thermostatAddr, nodes) == TRUE

\* discover: "if thermostatAddr not in self.nodes"
IsNewThermostat(thermostatAddr, nodes) == thermostatAddr \notin DOMAIN nodes

\* discover: the notice for a thermostat that is not residential.  It is
\* formatted with the local thermoType, which is assigned only where a new
\* Thermostat node is made: unassigned, the format raises UnboundLocalError
UnsupportedNotice(acc, hostName, type) ==
    IF acc.thermoType = "unbound"
    THEN [acc EXCEPT !.raised = "UnboundLocalError"]
    ELSE [acc EXCEPT !.notices = Append(@, Notice("unsupported", hostName, acc.thermoType))]

\* discover: the notice for a thermostat whose info query failed
InfoFailed(acc, hostName, dynamicDiscovery) ==
    [acc EXCEPT !.notices =
        Append(@, Notice(IF dynamicDiscovery THEN "unreachable" ELSE "unreachable-static",
                         hostName, ""))]

\* discover: the body of "for thermostat in thermostats"
ProcessThermostat(acc0, thermostat, dynamicDiscovery) ==
    LET hostName == thermostat.hostname
        thermoInfo == Hosts[hostName]
        acc == [acc0 EXCEPT !.queried = Append(@, hostName)]
        tempUnit == thermoInfo.tempunits
        thermostatAddr == getValidNodeAddress(LastN(thermostat.id, 8))
    IN  IF ~thermoInfo.info
        THEN InfoFailed(acc, hostName, dynamicDiscovery)
        ELSE IF thermoInfo.type # "residential"
        THEN UnsupportedNotice(acc, hostName, thermoInfo.type)
        ELSE LET made ==
                    IF IsNewThermostat(thermostatAddr, acc.nodes)
                    THEN [addNode(acc, thermostatAddr,
                                  ThermostatNode(hostName, thermoInfo.type, tempUnit))
                            EXCEPT !.thermoType = thermoInfo.type,
                                   !.customData =
                                       (thermostatAddr :>
                                          NewThermostat(hostName, thermoInfo.type,
                                                        tempUnit).cData) @@ @]
                    ELSE acc
             IN  AddSensors(made, thermostatAddr, thermoInfo.sensors, 1, 0, tempUnit)

RECURSIVE ProcessThermostats(_, _, _, _)
ProcessThermostats(acc, thermostats, i, dynamicDiscovery) ==
    IF i > Len(thermostats) \/ acc.raised # "none" THEN acc
    ELSE ProcessThermostats(ProcessThermostat(acc, thermostats[i], dynamicDiscovery),
                            thermostats, i + 1, dynamicDiscovery)

\* what the thermostat at that host answers to a state query when its unit
\* setting is unit
HostState(hostName, unit) ==
    [mode |-> THERMO_MODE_AUTO, fan |-> 0, heattemp |-> LowTemp,
     cooltemp |-> LowTemp + SetpointDelta, away |-> 0, setpointdelta |-> SetpointDelta,
     tempunits |-> unit, spacetemp |-> LowTemp, hum |-> 40, state |-> 0, fanstate |-> 0,
     schedulepart |-> IX_TSTAT_SCHED_MODE_INACTIVE]

\* the last handler that ran, and the node it ran on
Handler(op, node) == [op |-> op, node |-> node]

\* Thermostat.updateNodeStates on the thermostat node at addr of a
\* controller with several nodes; polled: the state fetch succeeds; unit:
\* the unit the thermostat reports
pollNode(acc, addr, unit, polled) ==
    LET node == acc.nodes[addr]
        thermoState == HostState(node.hostName, unit)
        changed == polled /\ thermoState.tempunits # node.tempUnit
        t == changeTempUnits(NewThermostat(node.hostName, node.type, node.tempUnit),
                             thermoState.tempunits)
        node2 == IF changed
                 THEN [node EXCEPT !.id = t.id, !.uom = t.uom, !.tempUnit = t.tempUnit]
                 ELSE node
        nodes2 == IF changed THEN changeSensorUnits(acc.nodes, addr, thermoState.tempunits)
                  ELSE acc.nodes
    IN  [acc EXCEPT !.nodes = [nodes2 EXCEPT ![addr] =
                                  [node2 EXCEPT !.drv = IF polled
                                                        THEN PolledDrivers(@, thermoState)
                                                        ELSE setDriver(@, "GV0", 0)]],
                    !.customData = IF changed THEN [@ EXCEPT ![addr] = t.cData] ELSE @]

\* the alerts the thermostat at that host reports
HostAlerts(hostName) ==
    IF hostName = "upstairs"
    THEN <<[name |-> "Air Filter", active |-> TRUE], [name |-> "Service", active |-> FALSE]>>
    ELSE <<>>

\* updateSensorsandAlerts: "int(next((alert['active'] for alert in alerts
\* if alert['name'] == name), False))"
AlertFlag(alerts, name) ==
    LET named == SelectSeq(alerts, LAMBDA alert : alert.name = name)
    IN  IF named # <<>> /\ named[1].active THEN 1 ELSE 0

\* the thermostat nodes of controller.nodes, in the order of the dictionary
ThermostatNodes(acc) ==
    SelectSeq(acc.order, LAMBDA a : acc.nodes[a].id \in {"THERMOSTAT", "THERMOSTAT_C"})

\* Thermostat.updateSensorsandAlerts: its first statement calls
\* self._conn.getThermostatAlerts, which thermostatConnection does not have
updateSensorsandAlerts(acc, addr) == [acc EXCEPT !.raised = "AttributeError"]

\* discover: the last loop.  updateNodeStates(True) runs on the first
\* thermostat node, then updateSensorsandAlerts(True) raises
UpdateDiscovered(acc, polled) ==
    LET thermostats == ThermostatNodes(acc)
    IN  IF thermostats = <<>> THEN acc
        ELSE LET addr == thermostats[1]
                 unit == Hosts[acc.nodes[addr].hostName].tempunits
             IN  updateSensorsandAlerts(pollNode(acc, addr, unit, polled), addr)

RECURSIVE PollNodes(_, _, _)
\* Controller.longPoll: updateSensorsandAlerts on each thermostat node until
\* one raises, then saveCustomData
PollNodes(acc, thermostats, i) ==
    IF acc.raised # "none" THEN acc
    ELSE IF i > Len(thermostats) THEN [acc EXCEPT !.saved = acc.customData]
    ELSE PollNodes(updateSensorsandAlerts(acc, thermostats[i]), thermostats, i + 1)

longPoll(c) ==
    PollNodes([c EXCEPT !.raised = "none", !.last = Handler("longPoll", <<>>)],
              ThermostatNodes(c), 1)

\* a command handler of the thermostat node at addr as the other nodes see
\* it: the node's own driver is set
commandNode(c, addr, name, value) ==
    [c EXCEPT !.nodes[addr].drv = setDriver(@, name, value),
              !.raised = "none", !.last = Handler("command", addr)]

\* the address of the Controller node, as characters
ControllerAddress == <<"c", "o", "n", "t", "r", "o", "l", "l", "e", "r">>

\* variant: the session is closed and GV0 left as it is
disconnectStillOnline(node) == [node EXCEPT !.conn = "closed"]

\* Thermostat.disconnect: the session is closed, then GV0 is set to 0
disconnect(node) == [node EXCEPT !.conn = "closed", !.drv = setDriver(@, "GV0", 0)]

\* what disconnect does, in the order it does it
DisconnectEffects(addr) == <<Effect(addr, "close"), Effect(addr, "GV0")>>

RECURSIVE StopNodes(_, _, _)
\* Controller.stop: disconnect on each thermostat node, then ST of the
\* controller set to 0; with the list of what was done, in order
StopNodes(acc, thermostats, i) ==
    IF i > Len(thermostats)
    THEN [c |-> [acc.c EXCEPT !.ST = 0],
          effects |-> Append(acc.effects, Effect(ControllerAddress, "ST"))]
    ELSE StopNodes([c |-> [acc.c EXCEPT !.nodes[thermostats[i]] = disconnect(@)],
                    effects |-> acc.effects \o DisconnectEffects(thermostats[i])],
                   thermostats, i + 1)

stop(c) ==
    StopNodes([c |-> [c EXCEPT !.raised = "none", !.last = Handler("stop", <<>>)],
               effects |-> <<>>],
              ThermostatNodes(c), 1)

\* the hostnames and the thermostat types as characters
HostNameChars ==
    [h \in DOMAIN Hosts |->
       CASE h = "upstairs" -> <<"u", "p", "s", "t", "a", "i", "r", "s">>
         [] h = "garage" -> <<"g", "a", "r", "a", "g", "e">>
         [] h = "office" -> <<"o", "f", "f", "i", "c", "e">>
         [] h = "attic" -> <<"a", "t", "t", "i", "c">>
         [] OTHER -> <<"n", "o", "h", "o", "s", "t">>]

TypeChars(type) ==
    IF type = "residential" THEN <<"r", "e", "s", "i", "d", "e", "n", "t", "i", "a", "l">>
    ELSE <<"c", "o", "m", "m", "e", "r", "c", "i", "a", "l">>

\* saveProperties: "';'.join([self._hostName, self._type, str(self.tempUnit)])"
PropertiesText(cData) ==
    HostNameChars[cData[1]] \o <<";">> \o TypeChars(cData[2]) \o <<";">> \o Str(cData[3])

RECURSIVE Split(_, _)
\* str.split(sep): the pieces between the separators
Split(s, sep) ==
    IF \A i \in 1..Len(s) : s[i] # sep THEN <<s>>
    ELSE LET k == CHOOSE i \in 1..Len(s) :
                     s[i] = sep /\ \A j \in 1..(i - 1) : s[j] # sep
         IN  <<SubSeq(s, 1, k - 1)>> \o Split(SubSeq(s, k + 1, Len(s)), sep)

RECURSIVE IntOf(_)
\* int(s) for a string of decimal digits
IntOf(s) ==
    IF s = <<>> THEN 0
    ELSE 10 * IntOf(SubSeq(s, 1, Len(s) - 1))
         + ((CHOOSE d \in 1..10 : Digits[d] = s[Len(s)]) - 1)

\* Thermostat.__init__ with hostName None: the properties are read back
\* from the custom data text of the address
LoadedProperties(text) ==
    LET cData == Split(text, ";")
    IN  [hostName |-> CHOOSE h \in DOMAIN Hosts : HostNameChars[h] = cData[1],
         type |-> CHOOSE t \in {"residential", "commercial"} : TypeChars(t) = cData[2],
         tempUnit |-> IntOf(cData[3])]

RECURSIVE LoadThermostats(_, _, _, _)
\* Controller.start, first pass: a Thermostat for every saved thermostat
\* node, from the custom data Polyglot gives back; without custom data for
\* the address getCustomData returns None and None.split raises
LoadThermostats(acc, old, addrs, i) ==
    IF i > Len(addrs) \/ acc.raised # "none" THEN acc
    ELSE LET addr == addrs[i]
         IN  IF addr \notin DOMAIN acc.customData
             THEN [acc EXCEPT !.raised = "AttributeError"]
             ELSE LET props == LoadedProperties(PropertiesText(acc.customData[addr]))
                      t == NewThermostat(props.hostName, props.type, props.tempUnit)
                      added == addNode(acc, addr,
                                  ThermostatNode(props.hostName, props.type, props.tempUnit))
                  IN  LoadThermostats([added EXCEPT !.customData[addr] = t.cData],
                                      old, addrs, i + 1)

RECURSIVE LoadSensors(_, _, _, _)
\* Controller.start, second pass: a Sensor for every saved sensor node, in
\* the unit of its thermostat node
LoadSensors(acc, old, addrs, i) ==
    IF i > Len(addrs) \/ acc.raised # "none" THEN acc
    ELSE LET addr == addrs[i]
             saved == old.nodes[addr]
         IN  LoadSensors(addNode(acc, addr,
                                 SensorNode(saved.primary, saved.name,
                                            acc.nodes[saved.primary].tempUnit)),
                         old, addrs, i + 1)

\* Controller.start in a new process: the custom data is what was last given
\* to saveCustomData, the nodes are those Polyglot has kept
start(c) ==
    LET fresh == [c EXCEPT !.nodes = <<>>, !.order = <<>>, !.customData = c.saved,
                           !.notices = <<>>, !.resolved = <<>>, !.queried = <<>>,
                           !.created = <<>>, !.raised = "none", !.ran = FALSE,
                           !.ST = 0, !.last = Handler("start", <<>>)]
        thermostats == ThermostatNodes(c)
        others == SelectSeq(c.order, LAMBDA a : c.nodes[a].id = "SENSOR")
        first == LoadThermostats(fresh, c, thermostats, 1)
        second == LoadSensors(first, c, others, 1)
    IN  IF second.raised # "none" THEN second ELSE [second EXCEPT !.ST = 1]

\* Controller.discover, from removeNoticesAll to its return or the exception
\* that ends it; polled: the state fetch of the last loop succeeds
discover(c, w, polled) ==
    LET dynamicDiscovery == ~w.static
        cleared == [nodes |-> c.nodes, order |-> c.order, customData |-> c.customData,
                  saved |-> c.saved, notices |-> <<>>, resolved |-> <<>>,
                  queried |-> <<>>, created |-> <<>>, raised |-> "none", ran |-> TRUE,
                  ST |-> c.ST, last |-> Handler("discover", <<>>),
                  thermoType |-> "unbound", thermostats |-> <<>>]
        listed == IF dynamicDiscovery
                  THEN [cleared EXCEPT !.thermostats = discoverThermostats(w.hosts)]
                  ELSE ResolveHosts(w.hosts, 1, cleared)
        looped == ProcessThermostats(listed, listed.thermostats, 1, dynamicDiscovery)
        ended == IF looped.raised # "none" THEN looped
                 ELSE UpdateDiscovered([looped EXCEPT !.saved = looped.customData], polled)
    IN  [f \in DOMAIN c |-> ended[f]]

\* the Controller after start() on a new installation: no saved nodes, no
\* custom data (the controller's own node is left out of nodes)
NewController ==
    [nodes |-> <<>>, order |-> <<>>, customData |-> <<>>, saved |-> <<>>,
     notices |-> <<>>, resolved |-> <<>>, queried |-> <<>>, created |-> <<>>,
     raised |-> "none", ran |-> FALSE, ST |-> 1, last |-> Handler("none", <<>>)]

\* no string has been given to getValidNodeAddress
NoAddress == [s |-> <<>>, prev |-> <<>>, r |-> <<>>, n |-> 0]

\* an installation with nothing to discover
NoWorld == [static |-> FALSE, hosts |-> <<>>]

\* the node, its sensors and the connection before anything has run
NodeAtStart ==
    /\ tstat = NewThermostat("thermo1.lan", "residential", 0)
    /\ drv = InitialDrivers
    /\ command = NoCommand
    /\ calls = <<>>
    /\ logged = "none"
    /\ drift = 0
    /\ trip = NoTrip
    /\ sensors = InitialSensors
    /\ effects = <<>>
    /\ api = NoApiCall
    /\ world = NoWorld
    /\ ctl = NewController

InitNode ==
    /\ NodeAtStart
    /\ derived = NoAddress

Init ==
    /\ dev \in DeviceStates
    /\ InitNode

Next == IncDec \/ SetSp \/ SetMode \/ SetFan \/ ShortPoll \/ Return \/ DeviceChange

Spec == Init /\ [][Next]_vars

(* The same handlers with a device that is reachable and accepts every     *)
(* write, and nobody changing it at the thermostat.                        *)
IncDecAccepted ==
    /\ Idle
    /\ \E cmd \in {"BRT", "DIM"} : cmd_inc_dec(cmd, {"200ok"}, {"200ok"})
    /\ UNCHANGED <<tstat, drift, sensors, effects, elsewhere>>

SetSpAccepted ==
    /\ Idle
    /\ \E cmd \in {"SET_CLISPH", "SET_CLISPC"}, value \in Temps :
           cmd_set_sp(cmd, value, {"200ok"}, {"200ok"})
    /\ UNCHANGED <<tstat, drift, sensors, effects, elsewhere>>

SetModeAccepted ==
    /\ Idle
    /\ \E newMode \in CommandModes : cmd_set_mode(newMode, {"200ok"}, {"200ok"})
    /\ UNCHANGED <<tstat, drift, sensors, effects, elsewhere>>

ShortPollAccepted ==
    /\ Idle
    /\ updateNodeStates({"200ok"})
    /\ UNCHANGED <<drift, elsewhere>>

NextAccepting ==
    IncDecAccepted \/ SetSpAccepted \/ SetModeAccepted \/ ShortPollAccepted \/ Return

SpecAccepting == Init /\ [][NextAccepting]_vars

(* All the commands of the node and the poll, with a device that may fail   *)
(* or reject any request, and nobody changing it at the thermostat.        *)
NextCommands ==
    IncDec \/ SetSp \/ SetMode \/ SetFan \/ SetSched \/ ShortPoll \/ Return

SpecCommands == Init /\ [][NextCommands]_vars

(* Mode, fan and schedule commands and polls, any of which may fail; the   *)
(* short poll timer keeps firing, and a handler that has started returns.  *)
NextPolling == SetMode \/ SetFan \/ SetSched \/ ShortPoll \/ Return

SpecPolling == Init /\ [][NextPolling]_vars /\ WF_vars(ShortPoll) /\ WF_vars(Return)

(* The poll alone, against a thermostat that runs and is operated between  *)
(* polls.                                                                  *)
PollDeviceStates ==
    [mode : {THERMO_MODE_AUTO}, fan : {0}, heattemp : {LowTemp},
     cooltemp : {LowTemp + SetpointDelta}, away : {0, 1},
     setpointdelta : {SetpointDelta}, tempunits : {0, 1}, spacetemp : {LowTemp},
     hum : {40}, state : 0..MaxRawState, fanstate : {0},
     schedulepart : {IX_TSTAT_SCHED_MODE_INACTIVE}]

InitPoll ==
    /\ dev \in PollDeviceStates
    /\ InitNode

NextPoll == ShortPoll \/ Return \/ DeviceRuns

SpecPoll == InitPoll /\ [][NextPoll]_vars

(* Discovery, run any number of times in an installation that stays as it  *)
(* is: the same hostnames configured or the same thermostats answering.    *)
\* Controller.discover: at start-up or on the DISCOVER command
Discover ==
    /\ ctl.ST = 1
    /\ \E polled \in BOOLEAN : ctl' = discover(ctl, world, polled)
    /\ UNCHANGED <<nodeVars, api, world, derived>>

\* Thermostat.updateNodeStates on one of the thermostat nodes, as a short
\* poll runs it; the thermostat may have been set to either unit
PollThermostat ==
    /\ ctl.ST = 1
    /\ \E i \in 1..Len(ThermostatNodes(ctl)), polled \in BOOLEAN :
           \E unit \in (IF polled THEN {0, 1} ELSE {0}) :
              LET addr == ThermostatNodes(ctl)[i]
              IN  ctl' = [pollNode(ctl, addr, unit, polled)
                            EXCEPT !.raised = "none",
                                   !.last = Handler("updateNodeStates", addr)]
    /\ UNCHANGED <<nodeVars, api, world, derived>>

\* a command on one of the thermostat nodes sets a driver of the node
CommandThermostat ==
    /\ ctl.ST = 1
    /\ \E i \in 1..Len(ThermostatNodes(ctl)), value \in FanModes :
           ctl' = commandNode(ctl, ThermostatNodes(ctl)[i], "CLIFS", value)
    /\ UNCHANGED <<nodeVars, api, world, derived>>

\* Controller.longPoll
LongPoll ==
    /\ ctl.ST = 1
    /\ ctl' = longPoll(ctl)
    /\ UNCHANGED <<nodeVars, api, world, derived>>

\* Controller.stop
Stop ==
    /\ ctl.ST = 1
    /\ ctl' = stop(ctl).c
    /\ effects' = stop(ctl).effects
    /\ UNCHANGED <<dev, tstat, drv, command, calls, logged, drift, trip, sensors, api,
                   world, derived>>

RECURSIVE Lists(_, _)
\* the lists of at most n different elements of S
Lists(S, n) ==
    IF n = 0 THEN {<<>>}
    ELSE LET shorter == Lists(S, n - 1)
         IN  shorter \cup {Append(l, x) : l \in shorter, x \in S}

Worlds ==
    {w \in [static : BOOLEAN, hosts : Lists(DOMAIN Hosts, MaxCandidates)] :
        /\ w.hosts # <<>>
        /\ \A i, j \in 1..Len(w.hosts) : w.hosts[i] = w.hosts[j] => i = j
        /\ ~w.static => \A i \in 1..Len(w.hosts) : Hosts[w.hosts[i]].resolves}

InitDiscover ==
    /\ dev \in {d \in DeviceStates : d.mode = THERMO_MODE_OFF /\ d.fan = 0 /\ d.away = 0
                                     /\ d.heattemp = LowTemp /\ d.cooltemp = LowTemp}
    /\ tstat = NewThermostat("thermo1.lan", "residential", 0)
    /\ drv = InitialDrivers
    /\ command = NoCommand
    /\ calls = <<>>
    /\ logged = "none"
    /\ drift = 0
    /\ trip = NoTrip
    /\ sensors = InitialSensors
    /\ effects = <<>>
    /\ api = NoApiCall
    /\ world \in Worlds
    /\ ctl = NewController
    /\ derived = NoAddress

NextDiscover == Discover

SpecDiscover == InitDiscover /\ [][NextDiscover]_vars

\* the node server is started again (after a stop, a crash or a reboot)
Restart ==
    /\ ctl.last.op # "none"
    /\ ctl' = start(ctl)
    /\ UNCHANGED <<nodeVars, api, world, derived>>

(* Discovery, polls of the thermostat nodes, and restarts of the node       *)
(* server.                                                                 *)
NextRestart == Discover \/ PollThermostat \/ Restart

SpecRestart == InitDiscover /\ [][NextRestart]_vars

(* The controller with the nodes discovery gave it: polls of and commands   *)
(* on its thermostat nodes, long polls, and the shutdown.                  *)
NextController == Discover \/ PollThermostat \/ CommandThermostat \/ LongPoll \/ Stop

SpecController == InitDiscover /\ [][NextController]_vars

(* The methods of thermostatConnection, each called on its own with every  *)
(* way its HTTP exchange can end.                                          *)
NextApi ==
    \/ ApiGetThermostatState
    \/ ApiGetSensorState
    \/ ApiSetThermostatControls
    \/ ApiSetThermostatSettings

\* the thermostat behind the connection plays no part in what a method
\* makes of an exchange: one thermostat will do
InitApi ==
    /\ Init
    /\ dev.mode = THERMO_MODE_OFF
    /\ dev.fan = 0
    /\ dev.away = 0
    /\ dev.heattemp = LowTemp
    /\ dev.cooltemp = LowTemp

SpecApi == InitApi /\ [][NextApi]_vars

(* getValidNodeAddress on its own: applied to a string, and again to what  *)
(* it returned. The strings are a head and a tail of characters of every   *)
(* kind (removed, upper case, lower case, digit, underscore) around a run  *)
(* of hexadecimal digits that brings the length below, to and above 14.    *)
MaxPart == 2

AddressChars == {"<", ";", "A", "S", "a", "0", "_"}

PadLengths == {0, 11, 13}

AddressInputs ==
    {x \o [i \in 1..k |-> "b"] \o y :
        x \in Lists(AddressChars, MaxPart), y \in Lists(AddressChars, MaxPart),
        k \in PadLengths}

ValidNodeAddress ==
    /\ derived.n < 2
    /\ derived' = [s |-> derived.s, prev |-> derived.r,
                   r |-> getValidNodeAddress(IF derived.n = 0 THEN derived.s ELSE derived.r),
                   n |-> derived.n + 1]
    /\ UNCHANGED <<nodeVars, api, world, ctl>>

InitAddress ==
    /\ dev \in {d \in DeviceStates : d.mode = THERMO_MODE_OFF /\ d.fan = 0 /\ d.away = 0
                                     /\ d.heattemp = LowTemp /\ d.cooltemp = LowTemp}
    /\ NodeAtStart
    /\ derived \in {[NoAddress EXCEPT !.s = s] : s \in AddressInputs}

NextAddress == ValidNodeAddress

SpecAddress == InitAddress /\ [][NextAddress]_vars

(* ------------------------------ claims -------------------------------- *)
\* the writes (control and settings posts) among the requests of a handler
Writes(cs) == SelectSeq(cs, LAMBDA c : c.ep \in {"control", "settings"})

\* this step is handler op running from start to return
Ran(op) == command.op = "none" /\ command'.op = op

\* ... and its state fetch returned the thermostat's state
RanFetched(op) == Ran(op) /\ calls'[1].result = "True"

SetpointsKept == drv'.CLISPH = drv.CLISPH /\ drv'.CLISPC = drv.CLISPC

\* C1: whatever setpoint-set, setpoint-increment and mode-set commands and
\* polls have run against a thermostat that was reachable and accepted every
\* write, a thermostat in Auto has its heat setpoint at most its cool
\* setpoint minus the separation it reports.
C1_AutoSeparation ==
    dev.mode = THERMO_MODE_AUTO => dev.heattemp <= dev.cooltemp - dev.setpointdelta

\* C2: a setpoint-set command that fetches mode Auto and away off is refused,
\* with no write sent and both cached setpoints kept, when the resulting pair
\* is closer than the reported separation; otherwise it sends exactly one
\* write, a control call with both setpoints of the pair, and when that call
\* succeeds both cached setpoints are the pair sent.
C2_SetSpAuto ==
    [][ (RanFetched("cmd_set_sp") /\ dev.mode = THERMO_MODE_AUTO /\ dev.away = 0) =>
        LET h == IF command'.cmd = "SET_CLISPH" THEN command'.value ELSE dev.heattemp
            c == IF command'.cmd = "SET_CLISPC" THEN command'.value ELSE dev.cooltemp
            w == Writes(calls')
        IN  IF c - h < dev.setpointdelta
            THEN w = <<>> /\ SetpointsKept /\ dev' = dev
            ELSE /\ Len(w) = 1
                 /\ w[1].ep = "control"
                 /\ w[1].params = [heattemp |-> h, cooltemp |-> c]
                 /\ w[1].result = "True" => (drv'.CLISPH = h /\ drv'.CLISPC = c)
      ]_vars

C2_Witness ==
    /\ command.op = "cmd_set_sp"
    /\ dev.mode = THERMO_MODE_AUTO
    /\ dev.away = 0
    /\ WriteAccepted(calls)
    /\ drv.CLISPC - drv.CLISPH = dev.setpointdelta

\* C3: a setpoint-increment command that fetches mode Off, or away on, sends
\* no control or settings call and keeps both cached setpoints.
C3_IncDecNoOp ==
    [][ (RanFetched("cmd_inc_dec") /\ (dev.mode = THERMO_MODE_OFF \/ dev.away = 1)) =>
        (Writes(calls') = <<>> /\ SetpointsKept /\ dev' = dev)
      ]_vars

C3_Witness ==
    /\ command.op = "cmd_inc_dec"
    /\ calls[1].result = "True"
    /\ dev.mode = THERMO_MODE_OFF
    /\ dev.away = 0
    /\ Len(calls) = 2

\* C4: a setpoint-increment command that fetches away off and a mode other
\* than Off sends exactly one write, a control call with both setpoints and
\* nothing else: heat moved by one degree in Heat and Auto, cool moved by one
\* degree in Cool and Auto (up for BRT, down for DIM), the other as fetched.
C4_IncDecPair ==
    [][ (RanFetched("cmd_inc_dec") /\ dev.mode # THERMO_MODE_OFF /\ dev.away = 0) =>
        LET s == IF command'.cmd = "BRT" THEN 1 ELSE -1
            w == Writes(calls')
        IN  /\ Len(w) = 1
            /\ w[1].ep = "control"
            /\ DOMAIN w[1].params = {"heattemp", "cooltemp"}
            /\ w[1].params.heattemp =
                 (CASE dev.mode = THERMO_MODE_HEAT -> dev.heattemp + s
                    [] dev.mode = THERMO_MODE_COOL -> dev.heattemp
                    [] dev.mode = THERMO_MODE_AUTO -> dev.heattemp + s)
            /\ w[1].params.cooltemp =
                 (CASE dev.mode = THERMO_MODE_HEAT -> dev.cooltemp
                    [] dev.mode = THERMO_MODE_COOL -> dev.cooltemp + s
                    [] dev.mode = THERMO_MODE_AUTO -> dev.cooltemp + s)
      ]_vars

C4_Witness ==
    /\ command.op = "cmd_inc_dec"
    /\ command.cmd = "DIM"
    /\ dev.mode = THERMO_MODE_AUTO
    /\ WriteAccepted(calls)

\* C5: a setpoint-set command that fetches away on is refused whatever the
\* mode: no write is sent and both cached setpoints are kept.
C5_SetSpAway ==
    [][ (RanFetched("cmd_set_sp") /\ dev.away = 1) =>
        (Writes(calls') = <<>> /\ SetpointsKept /\ dev' = dev)
      ]_vars

C5_Witness ==
    /\ command.op = "cmd_set_sp"
    /\ calls[1].result = "True"
    /\ dev.away = 1
    /\ dev.mode = THERMO_MODE_HEAT
    /\ logged = "away"

\* C6: a mode-set command to Away never sends a control call and leaves the
\* thermostat's stored mode and setpoints as they were; once its state fetch
\* has succeeded it sends exactly one write, the settings call away=1.
C6_SetModeAway ==
    [][ (Ran("cmd_set_mode") /\ command'.value = IX_TSTAT_MODE_AWAY) =>
        LET w == Writes(calls')
        IN  /\ \A i \in 1..Len(w) : w[i].ep # "control"
            /\ dev'.mode = dev.mode
            /\ dev'.heattemp = dev.heattemp
            /\ dev'.cooltemp = dev.cooltemp
            /\ calls'[1].result = "True" =>
                 (Len(w) = 1 /\ w[1].ep = "settings" /\ w[1].params = [away |-> 1])
      ]_vars

C6_Witness ==
    /\ command.op = "cmd_set_mode"
    /\ command.value = IX_TSTAT_MODE_AWAY
    /\ WriteAccepted(calls)
    /\ dev.away = 1
    /\ dev.mode = THERMO_MODE_COOL

\* C7: a mode-set command to a mode other than Away that fetches away on
\* sends the settings call away=0 first; when that call succeeds the control
\* call with the new mode and the fetched heat and cool setpoints follows and
\* nothing else; when it fails no control call is sent and the cached mode is
\* kept.
C7_SetModeLeavesAway ==
    [][ (RanFetched("cmd_set_mode") /\ command'.value # IX_TSTAT_MODE_AWAY
         /\ dev.away = 1) =>
        LET w == Writes(calls')
        IN  /\ Len(w) >= 1
            /\ w[1].ep = "settings"
            /\ w[1].params = [away |-> 0]
            /\ IF w[1].result = "True"
               THEN /\ Len(w) = 2
                    /\ w[2].ep = "control"
                    /\ w[2].params = [mode |-> command'.value,
                                      heattemp |-> dev.heattemp,
                                      cooltemp |-> dev.cooltemp]
               ELSE Len(w) = 1 /\ drv'.CLIMD = drv.CLIMD
      ]_vars

C7_Witness ==
    /\ command.op = "cmd_set_mode"
    /\ command.value = THERMO_MODE_HEAT
    /\ Len(Writes(calls)) = 2
    /\ Writes(calls)[1].params = [away |-> 0]
    /\ WriteAccepted(calls)

\* C8: after a successful mode-set to M (Off, Heat, Cool or Auto), then a
\* successful mode-set to Away, then the away flag being cleared, then a
\* successful poll, the reported mode is M; and from the mode-set to Away on
\* the thermostat's stored mode is M throughout.
C8_AwayRoundTrip ==
    /\ trip.stage \in {2, 3, 4} => dev.mode = trip.mode
    /\ trip.stage = 4 => drv.CLIMD = trip.mode

C8_Witness ==
    /\ trip.stage = 4
    /\ trip.mode = THERMO_MODE_AUTO
    /\ command.op = "updateNodeStates"

\* C9: after a successful poll the reported mode is 13 when the polled away
\* flag is 1, whatever the polled mode, and the polled mode when the flag is
\* 0; the reported setpoints are the polled ones.
C9_PolledMode ==
    (command.op = "updateNodeStates" /\ calls[1].result = "True") =>
        /\ dev.away = 1 => drv.CLIMD = 13
        /\ dev.away = 0 => (drv.CLIMD = dev.mode /\ drv.CLIMD \in 0..3)
        /\ drv.CLISPH = dev.heattemp
        /\ drv.CLISPC = dev.cooltemp

C9_Witness ==
    /\ command.op = "updateNodeStates"
    /\ calls[1].result = "True"
    /\ dev.away = 1
    /\ dev.mode = THERMO_MODE_AUTO

\* C10: a fan-mode-set command that fetches away on sends no write and keeps
\* the cached fan mode; one that fetches away off sends exactly one write, a
\* control call with the fan value and no other parameter, and when that call
\* succeeds the cached fan mode is the value asked for.
C10_SetFan ==
    [][ RanFetched("cmd_set_fan") =>
        LET w == Writes(calls')
        IN  IF dev.away = 1
            THEN w = <<>> /\ drv'.CLIFS = drv.CLIFS /\ dev' = dev
            ELSE /\ Len(w) = 1
                 /\ w[1].ep = "control"
                 /\ w[1].params = [fan |-> command'.value]
                 /\ w[1].result = "True" => drv'.CLIFS = command'.value
      ]_vars

C10_Witness ==
    /\ command.op = "cmd_set_fan"
    /\ command.value = 1
    /\ WriteAccepted(calls)
    /\ dev.away = 0

\* C11 (as stated): after a schedule-off command whose write succeeded the
\* cached schedule phase is 255, and after a schedule-on command whose write
\* succeeded the cached schedule phase is what it was before the command.
C11_SchedOnKeepsPhase ==
    [][ (Ran("cmd_set_sched") /\ WriteAccepted(calls')) =>
        IF command'.cmd = "SCHED_OFF"
        THEN drv'.CLISMD = IX_TSTAT_SCHED_MODE_INACTIVE
        ELSE drv'.CLISMD = drv.CLISMD
      ]_vars

\* C11 (amended): after a schedule-off command whose write succeeded the
\* cached schedule phase is 255, and after a schedule-on command whose write
\* succeeded it is 0 at once, whatever it was and whatever part the device
\* is in; no other cached field changes.
C11_SchedApplied ==
    [][ (Ran("cmd_set_sched") /\ WriteAccepted(calls')) =>
        /\ drv'.CLISMD = IF command'.cmd = "SCHED_OFF"
                         THEN IX_TSTAT_SCHED_MODE_INACTIVE
                         ELSE IX_TSTAT_SCHED_MODE_ACTIVE
        /\ drv' = [drv EXCEPT !.CLISMD = drv'.CLISMD]
      ]_vars

C11_Witness ==
    /\ command.op = "cmd_set_sched"
    /\ command.cmd = "SCHED_ON"
    /\ WriteAccepted(calls)
    /\ drv.CLISMD = IX_TSTAT_SCHED_MODE_ACTIVE
    /\ dev.schedulepart = 2

\* the handlers of the node's commands
CommandHandlers ==
    {"cmd_inc_dec", "cmd_set_sp", "cmd_set_mode", "cmd_set_fan", "cmd_set_sched"}

\* C12: for every command handler, when every write it sent succeeded the
\* field the command sets is in the cache when the handler returns (both
\* setpoints as sent, the commanded mode, the commanded fan mode, the
\* schedule value); when a write failed (no answer, an error body or another
\* status) every driver and the node's unit are exactly what they were
\* before the command.
C12_CacheFollowsWrite ==
    [][ (\E op \in CommandHandlers : Ran(op)) =>
        LET w == Writes(calls')
            last == w[Len(w)]
        IN  /\ (w # <<>> /\ \A i \in 1..Len(w) : w[i].result = "True") =>
                 CASE command'.op \in {"cmd_inc_dec", "cmd_set_sp"} ->
                          /\ drv'.CLISPH = last.params.heattemp
                          /\ drv'.CLISPC = last.params.cooltemp
                   [] command'.op = "cmd_set_mode" -> drv'.CLIMD = command'.value
                   [] command'.op = "cmd_set_fan" -> drv'.CLIFS = last.params.fan
                   [] command'.op = "cmd_set_sched" ->
                          drv'.CLISMD = IF last.params.schedule = 1
                                        THEN IX_TSTAT_SCHED_MODE_ACTIVE
                                        ELSE IX_TSTAT_SCHED_MODE_INACTIVE
            /\ (\E i \in 1..Len(w) : w[i].result # "True") =>
                 (drv' = drv /\ tstat' = tstat)
      ]_vars

\* a fan-set whose write the device rejected, with the cache still showing
\* the other fan mode
C12_Witness ==
    /\ command.op = "cmd_set_fan"
    /\ Len(calls) = 3
    /\ calls[3].result = "False"
    /\ dev.fan # command.value
    /\ drv.CLIFS # command.value
    /\ drv.GV0 = 1

\* the exchange did not give the method an answer it can use: a timeout, a
\* connection failure, or a status other than 2xx and 401
Unavailable(x) ==
    \/ x.end \in {"timeout", "connection"}
    \/ x.end = "answer" /\ x.status \notin {200, 201, 204, 401}

\* C13: a state fetch, sensor fetch, control post or settings post whose
\* HTTP exchange ends in a timeout, a connection failure or a status other
\* than 2xx and 401 returns False to its caller; it does not raise.
C13_FailureIsReturned ==
    (api.op # "none" /\ Unavailable(api.exchanges[1])) => api.result = "False"

\* C14: a control or settings post returns True exactly when the device
\* answered 200 with a body without an error field; for a 200 with an error
\* field, and for an answer with status 201 or 401, it returns False.
C14_PostResult ==
    api.op \in {"setThermostatControls", "setThermostatSettings"} =>
        LET x == api.exchanges[1]
        IN  /\ api.result = "True" <=>
                  (x.end = "answer" /\ x.status = 200 /\ ~x.error)
            /\ (x.end = "answer" /\ (x.status \in {201, 401} \/ (x.status = 200 /\ x.error)))
                  => api.result = "False"

\* a control post the device answered with 200 and an error body
C14_Witness ==
    /\ api.op = "setThermostatControls"
    /\ api.exchanges[1].status = 200
    /\ api.exchanges[1].error
    /\ api.result = "False"

\* C15: a poll whose state fetch fails sets the online driver GV0 to 0 and
\* changes no other driver, nor the unit of the node or of a sensor; a poll
\* whose fetch succeeds sets GV0 to 1.
C15_PollOffline ==
    [][ Ran("updateNodeStates") =>
        IF calls'[1].result = "True"
        THEN drv'.GV0 = 1
        ELSE /\ drv' = [drv EXCEPT !.GV0 = 0]
             /\ tstat' = tstat
             /\ sensors' = sensors
             /\ dev' = dev
      ]_vars

\* a failed poll of a thermostat that an earlier poll had found online
C15_Witness ==
    /\ command.op = "updateNodeStates"
    /\ calls[1].result = "False"
    /\ drv.GV0 = 0
    /\ drv.CLISPH = dev.heattemp
    /\ drv.CLISMD = IX_TSTAT_SCHED_MODE_INACTIVE
    /\ tstat.tempUnit = 1

\* the last handler was a poll and its fetch returned the thermostat's state
Polled == command.op = "updateNodeStates" /\ calls[1].result = "True"

\* C16: after a successful poll of a thermostat whose heat/cool state is v,
\* the cached heat/cool state is v when v is 0, 1 or 2 and v + 10 otherwise,
\* and so is 0, 1 or 2 only when v is.
C16_HeatCoolState ==
    Polled =>
        /\ drv.CLIHCS = IF dev.state \in {0, 1, 2} THEN dev.state ELSE dev.state + 10
        /\ drv.CLIHCS \in {0, 1, 2} => dev.state = drv.CLIHCS

C16_Witness ==
    /\ Polled
    /\ dev.state = 3
    /\ drv.CLIHCS = 13

\* where in a sequence of effects that one comes (0: nowhere)
Position(es, e) ==
    IF \E i \in 1..Len(es) : es[i] = e
    THEN CHOOSE i \in 1..Len(es) : es[i] = e
    ELSE 0

\* C17: a successful poll that finds the thermostat in another unit than the
\* node's leaves the node with that unit, its id and the uom of its
\* temperature drivers for that unit, and the uom of every sensor of this
\* thermostat for that unit; each of these is set, and set before ST,
\* CLISPH, CLISPC, CLIHUM, CLIMD, CLIFS, CLIHCS, CLIFRS or CLISMD is.
C17_UnitFirst ==
    [][ (RanFetched("updateNodeStates") /\ dev.tempunits # tstat.tempUnit) =>
        LET unit == dev.tempunits
            uom == IF unit = 1 THEN ISY_TEMP_C_UOM ELSE ISY_TEMP_F_UOM
            children == {a \in DOMAIN sensors : sensors[a].primary = Address}
            unitEffects == {Effect(Address, "tempUnit"), Effect(Address, "uom"),
                            Effect(Address, "id")}
                           \cup {Effect(a, "uom") : a \in children}
        IN  /\ tstat'.tempUnit = unit
            /\ tstat'.uom = uom
            /\ tstat'.id = IF unit = 1 THEN "THERMOSTAT_C" ELSE "THERMOSTAT"
            /\ \A a \in children : sensors'[a].uom = uom
            /\ \A e \in unitEffects :
                  /\ Position(effects', e) > 0
                  /\ \A i \in 1..Len(PolledFields) :
                        Position(effects', e)
                            < Position(effects', Effect(Address, PolledFields[i]))
      ]_vars

\* a poll has changed the node and its two sensors to Celsius and back
C17_Witness ==
    /\ Polled
    /\ Len(effects) > 1 + Len(PolledFields)
    /\ tstat.tempUnit = 0
    /\ tstat.cData[3] = 0
    /\ sensors["a1b2c3d4_s1"].uom = ISY_TEMP_F_UOM
    /\ drv.ST = dev.spacetemp

\* x is an element of the sequence s
InSeq(x, s) == \E i \in 1..Len(s) : s[i] = x

\* the last discovery left a notice of that kind for that host
Noticed(kind, h) ==
    \E i \in 1..Len(ctl.notices) : ctl.notices[i].kind = kind /\ ctl.notices[i].host = h

\* the candidates of a discovery: the hostnames that resolve, or the
\* thermostats that answered the search
Candidates(w) == SelectSeq(w.hosts, LAMBDA h : ~w.static \/ Hosts[h].resolves)

\* the address discovery derives for the thermostat at that host
HostAddress(w, h) ==
    getValidNodeAddress(LastN(IF w.static THEN StaticId(Hosts[h].ip) ELSE Hosts[h].id, 8))

IsThermostat(node) == node.id \in {"THERMOSTAT", "THERMOSTAT_C"}

\* C18: after a discovery, for every candidate that is not a residential
\* thermostat, wherever it is in the list: there is an 'unsupported' notice
\* for it, there is no node under its address, and every candidate after it
\* has been queried.
C18_UnsupportedSkipped ==
    ctl.ran =>
        LET cands == Candidates(world)
        IN  \A i \in 1..Len(cands) :
              (Hosts[cands[i]].info /\ Hosts[cands[i]].type # "residential") =>
                 /\ Noticed("unsupported", cands[i])
                 /\ HostAddress(world, cands[i]) \notin DOMAIN ctl.nodes
                 /\ \A j \in (i + 1)..Len(cands) : InSeq(cands[j], ctl.queried)

\* C19: a discovery that follows another in an unchanged installation
\* leaves the set of node addresses as it was, constructs no Thermostat
\* node, and leaves hostname, type, unit and saved properties of every
\* thermostat node as they were.
C19_SecondDiscovery ==
    [][ ctl.ran =>
        /\ DOMAIN ctl'.nodes = DOMAIN ctl.nodes
        /\ \A a \in DOMAIN ctl.nodes :
              IsThermostat(ctl.nodes[a]) =>
                 /\ ~InSeq(a, ctl'.created)
                 /\ ctl'.nodes[a].hostName = ctl.nodes[a].hostName
                 /\ ctl'.nodes[a].type = ctl.nodes[a].type
                 /\ ctl'.nodes[a].tempUnit = ctl.nodes[a].tempUnit
                 /\ ctl'.customData[a] = ctl.customData[a]
      ]_vars

\* a second discovery has found both thermostats again and reused their nodes
C19_Witness ==
    /\ ctl.ran
    /\ Len(ctl.queried) >= 2
    /\ Cardinality({a \in DOMAIN ctl.nodes : IsThermostat(ctl.nodes[a])}) = 2
    /\ \A a \in DOMAIN ctl.nodes : IsThermostat(ctl.nodes[a]) => ~InSeq(a, ctl.created)
    /\ ctl.created # <<>>

\* C20: after a discovery in static mode, every hostname that does not
\* resolve has a notice and was not queried, while every other hostname of
\* the list was resolved and, when it resolves, queried; and every hostname
\* whose info query fails has a notice and no node.
C20_StaticSkips ==
    (world.static /\ ctl.ran) =>
        \A i \in 1..Len(world.hosts) :
           LET h == world.hosts[i]
           IN  /\ ~Hosts[h].resolves =>
                    /\ Noticed("unresolved", h)
                    /\ ~InSeq(h, ctl.queried)
                    /\ \A j \in 1..Len(world.hosts) :
                          j # i =>
                             /\ InSeq(world.hosts[j], ctl.resolved)
                             /\ Hosts[world.hosts[j]].resolves
                                   => InSeq(world.hosts[j], ctl.queried)
               /\ (Hosts[h].resolves /\ ~Hosts[h].info) =>
                    /\ Noticed("unreachable-static", h)
                    /\ HostAddress(world, h) \notin DOMAIN ctl.nodes

\* the sensors of the thermostat at that host that get a node
RemoteSensors(h) == SelectSeq(Hosts[h].sensors, LAMBDA name : name # "Space Temp")

\* the last discovery accepted the thermostat at that host
Accepted(h) == InSeq(h, ctl.queried) /\ Hosts[h].info /\ Hosts[h].type = "residential"

\* the sensor nodes of the thermostat node at address p
SensorsOf(p) ==
    {a \in DOMAIN ctl.nodes : ctl.nodes[a].id = "SENSOR" /\ ctl.nodes[a].primary = p}

\* after a discovery the thermostat at h has one sensor node for each of its
\* sensors but "Space Temp", the k-th of them (from 0) under the address of
\* the thermostat followed by infix and k, and no other; and no sensor
\* address is the address of a thermostat
SensorsRegistered(h, infix) ==
    LET p == HostAddress(world, h)
        names == RemoteSensors(h)
    IN  /\ \A k \in 1..Len(names) :
              LET a == p \o infix \o Str(k - 1)
              IN  a \in SensorsOf(p) /\ ctl.nodes[a].name = names[k]
        /\ Cardinality(SensorsOf(p)) = Len(names)
        /\ \A a \in SensorsOf(p) :
              \A h2 \in DOMAIN Hosts : Hosts[h2].resolves => a # HostAddress(world, h2)

\* C21 (as stated): after a discovery every accepted thermostat has one
\* sensor node for each entry of its sensor list but 'Space Temp', the k-th
\* under parentAddress + '_S' + k, all different from each other and from
\* every thermostat address.
C21_SensorAddressUpper ==
    ctl.ran => \A i \in 1..Len(world.hosts) :
                  Accepted(world.hosts[i]) => SensorsRegistered(world.hosts[i], <<"_", "S">>)

\* C21 (amended): the same with the address that getValidNodeAddress makes
\* of parentAddress + '_S' + k, which is parentAddress + '_s' + k.
C21_SensorAddressLower ==
    ctl.ran => \A i \in 1..Len(world.hosts) :
                  Accepted(world.hosts[i]) => SensorsRegistered(world.hosts[i], <<"_", "s">>)

\* the thermostat whose sensor list has 'Space Temp' between two sensors has
\* been accepted, and its third entry has the node numbered 1
C21_Witness ==
    /\ ctl.ran
    /\ Accepted("upstairs")
    /\ \E a \in SensorsOf(HostAddress(world, "upstairs")) :
          ctl.nodes[a].name = "Outdoor" /\ a[Len(a)] = "1"

\* C22: whatever string getValidNodeAddress is given, what it returns has
\* none of the invalid characters, no upper-case letter and at most 14
\* characters, and getValidNodeAddress returns it unchanged.
C22_ValidAddress ==
    /\ derived.n >= 1 =>
          /\ \A i \in 1..Len(derived.r) :
                /\ derived.r[i] \notin InvalidChars
                /\ \A j \in 1..Len(UpperCase) : derived.r[i] # UpperCase[j]
          /\ Len(derived.r) <= 14
          /\ derived.r = getValidNodeAddress(derived.s)
    /\ derived.n = 2 => derived.r = derived.prev

\* a string longer than 14 with an invalid character and an upper-case
\* letter among its last 14 has been through getValidNodeAddress twice
C22_Witness ==
    /\ derived.n = 2
    /\ Len(derived.s) > 14
    /\ \E i, j \in (Len(derived.s) - 13)..Len(derived.s) :
          derived.s[i] \in InvalidChars /\ derived.s[j] = "S"
    /\ Len(derived.r) < 14

\* the eight hexadecimal digits of the number of the address with these
\* four octets
HexDigits8(octets) ==
    [i \in 1..8 |-> LET o == octets[(i + 1) \div 2]
                    IN  Digits[(IF i % 2 = 1 THEN o \div 16 ELSE o % 16) + 1]]

\* C23: after a discovery in static mode, the id derived for an accepted
\* host is the eight hexadecimal digits of the number of its IPv4 address,
\* and the thermostat node of the host is under the address derived from
\* these digits.
C23_StaticIdHex ==
    (world.static /\ ctl.ran) =>
        \A i \in 1..Len(world.hosts) :
           LET h == world.hosts[i]
               addr == getValidNodeAddress(HexDigits8(Hosts[h].ip))
           IN  Accepted(h) =>
                  /\ StaticId(Hosts[h].ip) = HexDigits8(Hosts[h].ip)
                  /\ \A j \in 1..8 : \E k \in 1..16 : StaticId(Hosts[h].ip)[j] = Digits[k]
                  /\ addr \in DOMAIN ctl.nodes
                  /\ IsThermostat(ctl.nodes[addr])
                  /\ ctl.nodes[addr].hostName = h

\* C24: after a long poll of a controller with thermostat nodes, no
\* exception has been raised and each of the alert flags GV11, GV12, GV13 of
\* every thermostat node is the active value of the alert named 'Air
\* Filter', 'UV Lamp', 'Service' of its thermostat, 0 when there is none.
C24_LongPollAlerts ==
    (ctl.last.op = "longPoll" /\ ThermostatNodes(ctl) # <<>>) =>
        /\ ctl.raised = "none"
        /\ \A i \in 1..Len(ThermostatNodes(ctl)) :
              LET node == ctl.nodes[ThermostatNodes(ctl)[i]]
                  alerts == HostAlerts(node.hostName)
              IN  /\ node.drv.GV11 = AlertFlag(alerts, "Air Filter")
                  /\ node.drv.GV12 = AlertFlag(alerts, "UV Lamp")
                  /\ node.drv.GV13 = AlertFlag(alerts, "Service")

\* the nodes a poll of, or a command on, the thermostat node at addr may
\* change: the node and its own sensors
OwnNodes(nodes, addr) ==
    {addr} \cup {a \in DOMAIN nodes : nodes[a].id = "SENSOR" /\ nodes[a].primary = addr}

\* C27: a poll of, or a command on, one thermostat node leaves every other
\* thermostat node (cached drivers, unit, id, session), the saved properties
\* of every other thermostat, and every sensor node of another thermostat
\* as they were.
C27_OtherNodesKept ==
    [][(ctl'.last.op \in {"updateNodeStates", "command"}) =>
          LET addr == ctl'.last.node
          IN  /\ DOMAIN ctl'.nodes = DOMAIN ctl.nodes
              /\ DOMAIN ctl'.customData = DOMAIN ctl.customData
              /\ \A a \in DOMAIN ctl.nodes \ OwnNodes(ctl.nodes, addr) :
                    ctl'.nodes[a] = ctl.nodes[a]
              /\ \A a \in DOMAIN ctl.customData \ {addr} :
                    ctl'.customData[a] = ctl.customData[a]]_vars

\* a poll has just changed the unit of one thermostat node and of its
\* sensor while another thermostat node with a sensor of its own exists
C27_Witness ==
    /\ ctl.last.op = "updateNodeStates"
    /\ ctl.nodes[ctl.last.node].tempUnit # Hosts[ctl.nodes[ctl.last.node].hostName].tempunits
    /\ \E a \in DOMAIN ctl.nodes :
          /\ ctl.nodes[a].id = "SENSOR"
          /\ ctl.nodes[a].primary = ctl.last.node
          /\ ctl.nodes[a].uom = ctl.nodes[ctl.last.node].uom
    /\ \E b \in DOMAIN ctl.nodes :
          /\ IsThermostat(ctl.nodes[b])
          /\ b # ctl.last.node
          /\ \E a \in DOMAIN ctl.nodes :
                /\ ctl.nodes[a].id = "SENSOR"
                /\ ctl.nodes[a].primary = b
                /\ ctl.nodes[a].uom # ctl.nodes[ctl.last.node].uom

\* C28: after stop, the session of every thermostat node is closed and the
\* node is offline, the closing and the marking of every thermostat came
\* before the controller's ST was set to 0, which came last; and while the
\* controller is not running no thermostat node is online.
C28_Shutdown ==
    /\ ctl.last.op = "stop" =>
          /\ ctl.ST = 0
          /\ effects # <<>>
          /\ effects[Len(effects)] = Effect(ControllerAddress, "ST")
          /\ \A i \in 1..Len(ThermostatNodes(ctl)) :
                LET a == ThermostatNodes(ctl)[i]
                IN  /\ ctl.nodes[a].conn = "closed"
                    /\ InSeq(Effect(a, "close"), effects)
                    /\ InSeq(Effect(a, "GV0"), effects)
                    /\ Position(effects, Effect(a, "close"))
                          < Position(effects, Effect(a, "GV0"))
                    /\ Position(effects, Effect(a, "GV0"))
                          < Position(effects, Effect(ControllerAddress, "ST"))
    /\ ctl.ST = 0 =>
          \A a \in DOMAIN ctl.nodes :
             IsThermostat(ctl.nodes[a]) => ctl.nodes[a].drv.GV0 = 0

\* a controller with two thermostat nodes has been stopped
C28_Witness ==
    /\ ctl.last.op = "stop"
    /\ Len(ThermostatNodes(ctl)) = 2
    /\ Len(effects) = 5

\* C25: in every command handler the first request is the state fetch and
\* a write is sent only after it returned the state; whether the command is
\* refused for Away, whether away is cleared first, and the setpoints sent
\* in a control write all come from the state fetched in this invocation,
\* whatever the drivers hold.
C25_FetchedValuesUsed ==
    [][\A op \in CommandHandlers :
          Ran(op) =>
             LET ws == Writes(calls')
                 fetched == calls'[1].result = "True"
                 away == dev.away = 1
                 controls == SelectSeq(calls', LAMBDA c : c.ep = "control")
             IN  /\ calls'[1].ep = "info"
                 /\ ws # <<>> => fetched
                 /\ (fetched /\ op # "cmd_set_mode") =>
                       /\ away <=> logged' = "away"
                       /\ away => ws = <<>>
                 /\ (op = "cmd_inc_dec" /\ ws # <<>>) =>
                       ws[1].params = ControlParams(IncDecPair(command'.cmd, dev.mode,
                                                               dev.heattemp, dev.cooltemp))
                 /\ (op = "cmd_set_sp" /\ ws # <<>>) =>
                       ws[1].params = ControlParams(SetSpPair(command'.cmd, command'.value,
                                                              dev.heattemp, dev.cooltemp))
                 /\ (op = "cmd_set_mode" /\ fetched
                        /\ command'.value # IX_TSTAT_MODE_AWAY) =>
                       /\ away <=> (ws[1].ep = "settings" /\ ws[1].params = [away |-> 0])
                       /\ controls # <<>> =>
                             /\ controls[1].params.heattemp = dev.heattemp
                             /\ controls[1].params.cooltemp = dev.cooltemp]_vars

\* a setpoint command has sent a write (refused by the thermostat) whose
\* other setpoint is not the one in the drivers
C25_Witness ==
    /\ command.op = "cmd_set_sp"
    /\ command.cmd = "SET_CLISPH"
    /\ logged = "error"
    /\ Writes(calls) # <<>>
    /\ Writes(calls)[1].params.cooltemp = dev.cooltemp
    /\ Writes(calls)[1].params.cooltemp # drv.CLISPC

\* C29: a mode-set to a mode other than Away that starts with CLIMD
\* consistent with the thermostat (Away exactly when its away flag is set,
\* else its mode) returns, accepted or failed, with CLIMD consistent with
\* the thermostat.
C29_ModeSetConsistent ==
    [][(/\ Ran("cmd_set_mode")
        /\ command'.value # IX_TSTAT_MODE_AWAY
        /\ drv.CLIMD = ReportedMode(dev.away, dev.mode))
          => drv'.CLIMD = ReportedMode(dev'.away, dev'.mode)]_vars

\* C30: a command handler whose state fetch fails sends nothing else and
\* leaves every driver, the node and its sensors, and the thermostat as they
\* were.
C30_FailedFetchNoWrite ==
    [][\A op \in CommandHandlers :
          (Ran(op) /\ calls'[1].result = "False") =>
             /\ calls' = <<Call("info", <<>>, "False")>>
             /\ drv' = drv
             /\ tstat' = tstat
             /\ sensors' = sensors
             /\ dev' = dev]_vars

\* a schedule command found the thermostat unreachable after a poll had
\* filled the drivers
C30_Witness ==
    /\ command.op = "cmd_set_sched"
    /\ calls[1].result = "False"
    /\ drv.GV0 = 1
    /\ drv.CLISPH = dev.heattemp

\* every driver a poll sets is the translation of what the thermostat holds
CacheAgrees ==
    /\ drv.ST = dev.spacetemp
    /\ drv.CLISPH = dev.heattemp
    /\ drv.CLISPC = dev.cooltemp
    /\ drv.CLIHUM = dev.hum
    /\ drv.CLIMD = (IF dev.away = 1 THEN IX_TSTAT_MODE_AWAY ELSE dev.mode)
    /\ drv.CLIFS = dev.fan
    /\ drv.CLIHCS = (IF dev.state \in {0, 1, 2} THEN dev.state ELSE dev.state + 10)
    /\ drv.CLIFRS = dev.fanstate
    /\ drv.CLISMD = dev.schedulepart

\* a command has just run, or a poll has just failed
Disturbed ==
    \/ command.op \in CommandHandlers
    \/ command.op = "updateNodeStates" /\ calls[1].result # "True"

\* C26: after every successful poll each driver the poll sets is the
\* translation of the polled state, whatever earlier commands left in the
\* drivers; and if from some point on no command runs and no poll fails,
\* then from some point on the drivers agree with the thermostat.
C26_PollSupersedes ==
    /\ [](Polled => CacheAgrees)
    /\ (<>[](~Disturbed)) => <>[]CacheAgrees

\* a poll has succeeded after a schedule command was accepted and left its
\* own value in the schedule driver
C26_Witness ==
    /\ Polled
    /\ dev.schedulepart = 2
    /\ drv.CLISMD = 2
    /\ dev.fan = 1

\* C31: a setpoint-increment command that fetches mode Auto and sends its
\* write sends setpoints whose difference cool - heat is the difference
\* fetched, both moved one degree the same way; and whether or not the
\* thermostat takes the write, its difference is not smaller afterwards.
C31_IncDecKeepsDifference ==
    [][(RanFetched("cmd_inc_dec") /\ dev.mode = THERMO_MODE_AUTO
           /\ Writes(calls') # <<>>) =>
          LET w == Writes(calls')[1].params
          IN  /\ w.cooltemp - w.heattemp = dev.cooltemp - dev.heattemp
              /\ w.heattemp - dev.heattemp = w.cooltemp - dev.cooltemp
              /\ w.heattemp # dev.heattemp
              /\ dev'.cooltemp - dev'.heattemp >= dev.cooltemp - dev.heattemp]_vars

\* an increment in Auto has been accepted by a thermostat whose setpoints
\* are exactly the separation apart
C31_Witness ==
    /\ command.op = "cmd_inc_dec"
    /\ command.cmd = "BRT"
    /\ dev.mode = THERMO_MODE_AUTO
    /\ WriteAccepted(calls)
    /\ dev.cooltemp - dev.heattemp = dev.setpointdelta
    /\ drv.CLISPC - drv.CLISPH = dev.setpointdelta

\* C33: a schedule command (on or off) that fetches away on sends no write,
\* keeps the cached schedule phase and leaves the thermostat as it is.
C33_SchedRefusedInAway ==
    [][(RanFetched("cmd_set_sched") /\ dev.away = 1) =>
          /\ Writes(calls') = <<>>
          /\ drv'.CLISMD = drv.CLISMD
          /\ drv' = drv
          /\ dev' = dev
          /\ logged' = "away"]_vars

\* a schedule-on command has found the thermostat reachable and in Away
C33_Witness ==
    /\ command.op = "cmd_set_sched"
    /\ command.cmd = "SCHED_ON"
    /\ calls[1].result = "True"
    /\ dev.away = 1
    /\ logged = "away"
    /\ Writes(calls) = <<>>

\* the custom data of every thermostat node is its hostname, type and unit
PropertiesCurrent(c) ==
    \A a \in DOMAIN c.nodes :
       IsThermostat(c.nodes[a]) =>
          /\ a \in DOMAIN c.customData
          /\ c.customData[a] = <<c.nodes[a].hostName, c.nodes[a].type, c.nodes[a].tempUnit>>

\* C32: whatever discoveries, polls and restarts have run, the custom data
\* under the address of every thermostat node is its current hostname, type
\* and unit; and a restart gives, for every thermostat node there was, a
\* thermostat node with the same hostname, type and unit.
C32_StoredConfiguration ==
    [][/\ PropertiesCurrent(ctl')
       /\ ctl'.last.op = "start" =>
             /\ ctl'.raised = "none"
             /\ \A a \in DOMAIN ctl.nodes :
                   IsThermostat(ctl.nodes[a]) =>
                      /\ a \in DOMAIN ctl'.nodes
                      /\ ctl'.nodes[a].hostName = ctl.nodes[a].hostName
                      /\ ctl'.nodes[a].type = ctl.nodes[a].type
                      /\ ctl'.nodes[a].tempUnit = ctl.nodes[a].tempUnit]_vars

=============================================================================
